---- MODULE Spec2Model ----
(***************************************************************************)
(* Model of the Voxel Stack Blender processing pipeline                    *)
(* (ProcessingPipelineThread in processing_pipeline.py): the control       *)
(* thread that scans, sorts and filters the layer files, keeps the mask    *)
(* history deque, submits one task per layer to a ThreadPoolExecutor and   *)
(* collects the results, together with the worker threads of the pool and  *)
(* the GUI's stop request.                                                 *)
(***************************************************************************)
EXTENDS Integers, Sequences, FiniteSets, TLC

VARIABLES
    app_config,               \* the Config object the thread was built with
    max_workers,              \* ProcessingPipelineThread.max_workers
    is_running,               \* ProcessingPipelineThread._is_running
    listdir,                  \* os.listdir(input_path), in the order the OS gives
    pc,                       \* position of the control thread inside run()
    image_filenames_filtered, \* run(): the sorted and filtered file names
    i,                        \* run(): 1-based position of the for loop
    loaded,                   \* run(): (binary_image, original_image) of iteration i
    deques,                   \* the deque objects: deques[1] is prior_binary_masks_cache
    tracker,                  \* ROITracker state: the calls it has received
    active_futures,           \* run(): the futures, in submission order
    yielded,                  \* futures as_completed() has already yielded
    processed_count,          \* run(): processed_count
    status,                   \* values emitted on status_update
    progress,                 \* values emitted on progress_update
    errors,                   \* values emitted on error_signal
    finished,                 \* number of finished_signal emissions
    output_folder,            \* files written by cv2.imwrite: name -> image
    repack_calls,             \* number of _run_uvtools_repack invocations
    session_temp_folder,      \* "" | "exists" | "deleted"
    stop_iter,                \* <<>>, or <<j>>: stop_processing() was called when
                              \* the last loop iteration whose stop check had
                              \* passed was iteration j
    total_images,             \* run(): total_images
    exit_codes,               \* exit codes of the UVTools subprocesses run so far
    window,                   \* the ImageProcessorApp object (ui_components.py)
    threads,                  \* the ProcessingPipelineThread objects it has started
    signals,                  \* queued signal deliveries to the GUI thread
    project,                  \* the Project object of the slice editor (project.py)
    commands,                 \* the EditCommand objects created so far
    call,                     \* the last call on the project: method, argument, result
    tools                     \* the editor's tool buttons and the canvas drawing mode

vars == <<app_config, max_workers, is_running, listdir, pc,
          image_filenames_filtered, i, loaded, deques, tracker, active_futures,
          yielded, processed_count, status, progress, errors, finished,
          output_folder, repack_calls, session_temp_folder, stop_iter,
          total_images, exit_codes, window, threads, signals,
          project, commands, call, tools>>

editorVars == <<project, commands, call, tools>>

(***************************************************************************)
(* Bounds of the model.                                                    *)
(***************************************************************************)
MaxFiles == 3
MaxReceding == 2
MaxWorkers == 2
MaxExitCode == 2

Pixels == 1..3

(***************************************************************************)
(* File names are character sequences.                                     *)
(***************************************************************************)
F_2 == <<"2", ".", "p", "n", "g">>
F_10 == <<"1", "0", ".", "p", "n", "g">>
F_a2 == <<"a", "2", ".", "P", "N", "G">>
F_a == <<"a", ".", "p", "n", "g">>
F_1 == <<"1", ".", "p", "n", "g">>
F_txt == <<"0", ".", "t", "x", "t">>

\* the layers 0, 1, 3 and 4 of a five-layer stack (layer 2 is F_2)
F_0 == <<"0", ".", "p", "n", "g">>
F_a1 == <<"a", "1", ".", "p", "n", "g">>
F_3 == <<"3", ".", "p", "n", "g">>
F_4 == <<"4", ".", "p", "n", "g">>

ListingNames == {F_2, F_10, F_a2, F_a, F_1, F_txt}
NamePool == ListingNames \cup {F_0, F_a1, F_3, F_4}

Digits == {"0", "1", "2", "3", "4"}
DigitVal == [c \in Digits |-> CASE c = "0" -> 0 [] c = "1" -> 1 [] c = "2" -> 2
                                 [] c = "3" -> 3 [] c = "4" -> 4]
Letters == {"a", "p", "n", "g", "t", "x", "P", "N", "G"}
IsDigit(c) == c \in Digits
IsWord(c) == c \in Digits \cup Letters \cup {"_"}

\* str.lower() on one character
LowerChar(c) == CASE c = "P" -> "p" [] c = "N" -> "n" [] c = "G" -> "g" [] OTHER -> c
Lower(s) == [k \in 1..Len(s) |-> LowerChar(s[k])]

EndsWith(s, suf) ==
    /\ Len(s) >= Len(suf)
    /\ SubSeq(s, Len(s) - Len(suf) + 1, Len(s)) = suf

ImageExts == { <<".", "p", "n", "g">>, <<".", "b", "m", "p">>,
               <<".", "t", "i", "f">>, <<".", "t", "i", "f", "f">> }

IsImageName(f) == \E e \in ImageExts : EndsWith(Lower(f), e)

RECURSIVE ParseInt(_)
ParseInt(ds) ==
    IF ds = <<>> THEN 0
    ELSE 10 * ParseInt(SubSeq(ds, 1, Len(ds) - 1)) + DigitVal[ds[Len(ds)]]

\* float('inf') and int keys are pairs <<1, 0>> and <<0, n>>
INF == <<1, 0>>
IntKey(n) == <<0, n>>
KeyLT(a, b) == a[1] < b[1] \/ (a[1] = b[1] /\ a[2] < b[2])
KeyLE(a, b) == ~KeyLT(b, a)

\* re.compile(r'(\d+)\.\w+$').search(filename): the dots at which
\* "\.\w+$" matches with a digit right before
MatchDots(f) ==
    { d \in 2..(Len(f) - 1) :
        /\ f[d] = "."
        /\ \A k \in (d + 1)..Len(f) : IsWord(f[k])
        /\ IsDigit(f[d - 1]) }

\* start of the maximal digit run that ends at position e
RunStart(f, e) ==
    CHOOSE s \in 1..e :
        /\ \A k \in s..e : IsDigit(f[k])
        /\ (s = 1 \/ ~IsDigit(f[s - 1]))

\* a pattern (\d)\.\w+$ that captures one digit only
get_numeric_part_one_digit(f) ==
    IF MatchDots(f) = {} THEN INF
    ELSE LET d == CHOOSE x \in MatchDots(f) : TRUE
         IN IntKey(DigitVal[f[d - 1]])

get_numeric_part(f) ==
    IF MatchDots(f) = {} THEN INF
    ELSE LET d == CHOOSE x \in MatchDots(f) : TRUE
         IN IntKey(ParseInt(SubSeq(f, RunStart(f, d - 1), d - 1)))

\* sorted(seq, key=get_numeric_part): stable, ascending
RECURSIVE InsertByKey(_, _)
InsertByKey(sorted, f) ==
    IF sorted = <<>> THEN <<f>>
    ELSE IF KeyLE(get_numeric_part(sorted[Len(sorted)]), get_numeric_part(f))
         THEN Append(sorted, f)
         ELSE Append(InsertByKey(SubSeq(sorted, 1, Len(sorted) - 1), f),
                     sorted[Len(sorted)])

RECURSIVE SortedByKey(_)
SortedByKey(s) ==
    IF s = <<>> THEN <<>>
    ELSE InsertByKey(SortedByKey(SubSeq(s, 1, Len(s) - 1)), s[Len(s)])

RECURSIVE SelectSeq2(_, _)
SelectSeq2(s, keep) ==
    IF s = <<>> THEN <<>>
    ELSE IF s[1] \in keep THEN <<s[1]>> \o SelectSeq2(Tail(s), keep)
         ELSE SelectSeq2(Tail(s), keep)

all_image_filenames(dir) ==
    SortedByKey(SelectSeq2(dir, { f \in NamePool : IsImageName(f) }))

\* start_index / stop_index are <<>> (None) or <<n>>
\* a filter that drops the layers whose index equals a bound
InIndexRangeExclusive(f, cfg) ==
    LET numeric_part == get_numeric_part(f)
    IN /\ ~(cfg.start_index # <<>> /\ KeyLE(numeric_part, IntKey(cfg.start_index[1])))
       /\ ~(cfg.stop_index # <<>> /\ KeyLE(IntKey(cfg.stop_index[1]), numeric_part))

InIndexRange(f, cfg) ==
    LET numeric_part == get_numeric_part(f)
    IN /\ ~(cfg.start_index # <<>> /\ KeyLT(numeric_part, IntKey(cfg.start_index[1])))
       /\ ~(cfg.stop_index # <<>> /\ KeyLT(IntKey(cfg.stop_index[1]), numeric_part))

FilterByIndex(names, cfg) ==
    SelectSeq2(names, { f \in NamePool : InIndexRange(f, cfg) })

(***************************************************************************)
(* Images.  A grayscale image maps each pixel to 0..255; a binary mask is  *)
(* the set of its white pixels.                                            *)
(***************************************************************************)
DiskImage(f) ==
    CASE f = F_2 -> [p \in Pixels |-> IF p <= 2 THEN 255 ELSE 0]
      [] f = F_10 -> [p \in Pixels |-> IF p >= 2 THEN 200 ELSE 0]
      [] f = F_a2 -> [p \in Pixels |-> 255]
      [] f = F_a -> [p \in Pixels |-> IF p = 3 THEN 255 ELSE 40]
      [] f = F_0 -> [p \in Pixels |-> IF p = 1 THEN 255 ELSE 0]
      [] f = F_a1 -> [p \in Pixels |-> IF p = 2 THEN 255 ELSE 0]
      [] f = F_3 -> [p \in Pixels |-> IF p = 3 THEN 255 ELSE 0]
      [] f = F_4 -> [p \in Pixels |-> IF p # 2 THEN 255 ELSE 0]
      [] OTHER -> [p \in Pixels |-> 0]

Unreadable == {F_1}

\* core.load_image(filepath): <<>> for (None, None), else <<binary, original>>
load_image(f) ==
    IF f \in Unreadable THEN <<>>
    ELSE <<{ p \in Pixels : DiskImage(f)[p] > 127 }, DiskImage(f)>>

\* core.identify_rois(binary_image, min_size): connected runs of white pixels
IsRun(mask, r) ==
    /\ r # {}
    /\ r \subseteq mask
    /\ \A p \in Pixels : (\E a, b \in r : a < p /\ p < b) => p \in r
    /\ \A p \in mask \ r : \A q \in r : p # q + 1 /\ q # p + 1

identify_rois(mask, min_size) ==
    { r \in SUBSET Pixels : IsRun(mask, r) /\ Cardinality(r) >= min_size }

\* ROITracker.update_and_classify(rois, layer_index, config) with raft and
\* support handling disabled: every region is classified Model.  The tracker
\* state is the list of calls it has received.
tracker_update(trk, rois, layer_index) == Append(trk, <<layer_index, rois>>)
classify(trk, rois, layer_index) ==
    { [pixels |-> r, classification |-> "Model"] : r \in rois }

\* core.find_prior_combined_white_mask(list_of_masks): pixel-wise OR
find_prior_combined_white_mask(masks) ==
    UNION { masks[k] : k \in 1..Len(masks) }

Abs(x) == IF x < 0 THEN -x ELSE x
Min(a, b) == IF a < b THEN a ELSE b

\* distance from a white pixel to the nearest background pixel of the mask,
\* limited to the fade distance
EdgeDistance(mask, p, fade) ==
    LET near == { Abs(p - q) : q \in { x \in Pixels \ mask : Abs(p - x) <= fade } }
    IN IF near = {} THEN fade
       ELSE CHOOSE d \in near : \A e \in near : d <= e

\* core.process_z_blending(current, prior_combined, config, classified_rois)
process_z_blending(current, prior, cfg, classified_rois) ==
    LET receding == current \ prior
        fading == IF cfg.blending_mode = "roi_fade"
                  THEN receding \cap UNION { r.pixels : r \in classified_rois }
                  ELSE receding
        fade == cfg.fixed_fade_distance_receding
    IN [p \in Pixels |->
          IF p \in fading
          THEN Min(255, (EdgeDistance(current, p, fade) * 255) \div fade)
          ELSE 255]

\* core.merge_to_output(original_image, receding_gradient)
merge_to_output(original, gradient) ==
    [p \in Pixels |-> (original[p] * gradient[p]) \div 255]

(***************************************************************************)
(* collections.deque objects.  maxlen is <<>> (None) or <<n>>.             *)
(***************************************************************************)
NewDeque(maxlen, items) == [maxlen |-> maxlen, items |-> items]

\* a deque that never evicts
DequeAppendUnbounded(d, x) == [d EXCEPT !.items = Append(d.items, x)]

\* a deque that evicts its newest item
DequeAppendEvictNewest(d, x) ==
    IF d.maxlen # <<>> /\ d.maxlen[1] = 0 THEN d
    ELSE IF d.maxlen # <<>> /\ Len(d.items) >= d.maxlen[1]
         THEN [d EXCEPT !.items = Append(SubSeq(d.items, 1, Len(d.items) - 1), x)]
         ELSE [d EXCEPT !.items = Append(d.items, x)]

DequeAppend(d, x) ==
    IF d.maxlen # <<>> /\ d.maxlen[1] = 0 THEN d
    ELSE IF d.maxlen # <<>> /\ Len(d.items) >= d.maxlen[1]
         THEN [d EXCEPT !.items = Append(Tail(d.items), x)]
         ELSE [d EXCEPT !.items = Append(d.items, x)]

\* deques[CacheId] is prior_binary_masks_cache, the first deque run() creates
CacheId == 1

\* the cache itself handed over instead of a copy
SnapshotArgShared(heap, src) == <<heap, src>>

\* collections.deque(prior_binary_masks_cache): a new deque object holding
\* the items of the cache; gives the new heap and the reference to the copy
SnapshotArg(heap, src) ==
    <<Append(heap, NewDeque(<<>>, heap[src].items)), Len(heap) + 1>>

(***************************************************************************)
(* Python floats are IEEE-754 doubles.  A positive double is modelled as    *)
(* [m |-> its 53 significand bits, e |-> the exponent of the leading bit];  *)
(* the significand is held in five limbs, the leading bit and four limbs of *)
(* 13 bits, most significant first.  Every operation rounds to nearest,     *)
(* ties to even.                                                            *)
(***************************************************************************)
DoubleMantissaBits == 53
LimbBits == (DoubleMantissaBits - 1) \div 4
LimbBase == 2^LimbBits

RECURSIVE NormExp(_, _, _)
\* the least e with c * 2^e >= t
NormExp(c, t, e) == IF c * 2^e >= t THEN e ELSE NormExp(c, t, e + 1)

RECURSIVE BitLen(_)
BitLen(n) == IF n = 0 THEN 0 ELSE 1 + BitLen(n \div 2)

\* long division: the next limb of the quotient r / t, and the remainder
DivStep(r, t) == [q |-> (r * LimbBase) \div t, r |-> (r * LimbBase) % t]

RECURSIVE AddCarry(_, _, _)
\* limbs + carry, added at limb idx; the leading limb takes the overflow
AddCarry(limbs, idx, carry) ==
    IF idx = 1 THEN [limbs EXCEPT ![1] = @ + carry]
    ELSE LET v == limbs[idx] + carry
         IN AddCarry([limbs EXCEPT ![idx] = v % LimbBase], idx - 1, v \div LimbBase)

RECURSIVE MulLimbs(_, _, _, _)
\* limbs * k, exactly; the leading limb takes the overflow
MulLimbs(limbs, k, idx, carry) ==
    IF idx = 1 THEN [limbs EXCEPT ![1] = @ * k + carry]
    ELSE LET v == limbs[idx] * k + carry
         IN MulLimbs([limbs EXCEPT ![idx] = v % LimbBase], k, idx - 1, v \div LimbBase)

\* limbs shifted right by d < LimbBits bits
ShiftRight(limbs, d) ==
    [j \in 1..Len(limbs) |->
        IF j = 1 THEN limbs[1] \div 2^d
        ELSE (limbs[j - 1] % 2^d) * 2^(LimbBits - d) + limbs[j] \div 2^d]

\* a significand whose rounding may have carried into a second leading bit
Normalised(m, e) ==
    IF m[1] = 2 THEN [m |-> [j \in 1..Len(m) |-> IF j = 1 THEN 1 ELSE 0], e |-> e + 1]
    ELSE [m |-> m, e |-> e]

\* c / t for integers 0 < c <= t
FloatDiv(c, t) ==
    LET e0 == NormExp(c, t, 0)
        s1 == DivStep(c * 2^e0 - t, t)
        s2 == DivStep(s1.r, t)
        s3 == DivStep(s2.r, t)
        s4 == DivStep(s3.r, t)
        guard == 2 * s4.r >= t
        sticky == (2 * s4.r - (IF guard THEN t ELSE 0)) # 0
        up == guard /\ (sticky \/ s4.q % 2 = 1)
        m == <<1, s1.q, s2.q, s3.q, s4.q>>
    IN Normalised(AddCarry(m, Len(m), IF up THEN 1 ELSE 0), 0 - e0)

\* x * k for an integer 0 < k < LimbBase
FloatMulInt(x, k) ==
    LET p == MulLimbs(x.m, k, Len(x.m), 0)
        d == BitLen(p[1]) - 1
        low == p[Len(p)] % 2^d
        half == IF d = 0 THEN 1 ELSE 2^(d - 1)
        kept == ShiftRight(p, d)
        up == d > 0 /\ (low > half \/ (low = half /\ kept[Len(kept)] % 2 = 1))
    IN Normalised(AddCarry(kept, Len(kept), IF up THEN 1 ELSE 0), x.e + d)

\* int(x): truncation, for x < 2^(LimbBits + 1)
FloatToInt(x) ==
    IF x.e < 0 THEN 0 ELSE x.m[1] * 2^x.e + x.m[2] \div 2^(LimbBits - x.e)

\* int((processed_count / total_images) * 100)
ProgressPercent(count, total) ==
    IF count = 0 THEN 0 ELSE FloatToInt(FloatMulInt(FloatDiv(count, total), 100))

(***************************************************************************)
(* Initial state: a constructed, started thread.                           *)
(***************************************************************************)
Listings ==
    { s \in UNION { [1..n -> ListingNames] : n \in 0..MaxFiles } :
        \A a, b \in DOMAIN s : a # b => s[a] # s[b] }

Configs ==
    { c \in [ input_mode : {"folder", "uvtools"},
              uvtools_delete_temp_on_completion : BOOLEAN,
              blending_mode : {"fixed_fade", "roi_fade"},
              receding_layers : 0..MaxReceding,
              fixed_fade_distance_receding : {2},
              roi_min_size : {2},
              start_index : {<<>>, <<2>>},
              stop_index : {<<>>, <<2>>} ] :
        c.input_mode = "folder" => ~c.uvtools_delete_temp_on_completion }

\* Every directory of at most MaxFiles files is run in folder mode with the
\* largest pool and window, and four directories (one unsorted, one with
\* equal indices and an unreadable file, one with four layers, one whose only
\* layer is below the start index) are run with every configuration and pool
\* size.
BaseListings ==
    { <<F_10, F_a, F_2>>, <<F_a2, F_1, F_2>>, <<F_10, F_a, F_2, F_a2>>,
      <<F_txt, F_1>> }

BaseConfig(c) ==
    /\ c.input_mode = "folder"
    /\ c.blending_mode = "fixed_fade"
    /\ c.receding_layers = MaxReceding

\* the pipeline thread on its own, with no window attached
NoWindow == [closed |-> TRUE]

\* Project(): no edits, empty undo and redo stacks
NewProject == [edits |-> <<>>, undo_stack |-> <<>>, redo_stack |-> <<>>]

\* no method of the project has been called yet
NoCall == [op |-> "", arg |-> <<>>, ret |-> <<>>]

\* the modes of the Rectangle, Gradient and Text tool buttons, in the order
\* of the list `buttons` of toggle_draw_mode
ToolModes == <<"rectangle", "gradient", "text">>

\* MainWindow.__init__: no tool button is checked, the canvas has no mode
NoToolChecked ==
    [checked |-> [b \in DOMAIN ToolModes |-> FALSE], drawing_mode |-> "None"]

Init ==
    /\ app_config \in Configs
    /\ max_workers \in 1..MaxWorkers
    /\ listdir \in Listings \cup BaseListings
    /\ listdir \in BaseListings \/ (BaseConfig(app_config) /\ max_workers = MaxWorkers)
    /\ is_running = TRUE
    /\ pc = "start"
    /\ image_filenames_filtered = <<>>
    /\ i = 0
    /\ loaded = <<>>
    /\ deques = <<>>
    /\ tracker = <<>>
    /\ active_futures = <<>>
    /\ yielded = {}
    /\ processed_count = 0
    /\ status = <<>>
    /\ progress = <<>>
    /\ errors = <<>>
    /\ finished = 0
    /\ output_folder = <<>>
    /\ repack_calls = 0
    /\ session_temp_folder = ""
    /\ stop_iter = <<>>
    /\ total_images = 0
    /\ exit_codes = <<>>
    /\ window = NoWindow
    /\ threads = <<>>
    /\ signals = <<>>
    /\ project = NewProject
    /\ commands = <<>>
    /\ call = NoCall
    /\ tools = NoToolChecked

Emit(log, msgs) == log \o msgs

StateOf(k) == active_futures[k].state
Futures == DOMAIN active_futures
Terminated == {"FINISHED", "FAILED", "CANCELLED"}

(***************************************************************************)
(* The control thread: run().                                              *)
(***************************************************************************)
\* lines 107-123
Begin ==
    /\ pc = "start"
    /\ status' = Emit(status, <<"Processing started...">>)
    /\ pc' = IF app_config.input_mode = "uvtools" THEN "extract" ELSE "scan"
    /\ UNCHANGED <<editorVars, window, threads, signals, app_config, total_images, exit_codes, max_workers, is_running, listdir,
                   image_filenames_filtered, i, loaded, deques, tracker,
                   active_futures, yielded, processed_count, progress, errors,
                   finished, output_folder, repack_calls, session_temp_folder,
                   stop_iter>>

ExitCodes == 0..MaxExitCode

\* subprocess.run(..., check=True): CalledProcessError on a non-zero exit
CalledProcessError(returncode) == returncode # 0

\* an extraction that accepts every exit code
extract_layers_unchecked(returncode) == "input_folder"

\* uvtools_wrapper.extract_layers: the folder, or RuntimeError
extract_layers(returncode) ==
    IF CalledProcessError(returncode) THEN "RuntimeError"
    ELSE IF returncode \notin {0, 1} THEN "RuntimeError"
    ELSE "input_folder"

\* uvtools_wrapper.repack_layers: the output path, or RuntimeError
repack_layers(returncode) ==
    IF CalledProcessError(returncode) THEN "RuntimeError"
    ELSE IF returncode \notin {0, 1} THEN "RuntimeError"
    ELSE "final_output_path"

\* _run_uvtools_extraction: the subprocess exits with some code
Extract ==
    /\ pc = "extract"
    /\ session_temp_folder' = "exists"
    /\ \E returncode \in ExitCodes :
         /\ exit_codes' = Append(exit_codes, returncode)
         /\ IF extract_layers(returncode) = "input_folder"
            THEN /\ status' = Emit(status, <<"Starting UVTools slice extraction...",
                                          "UVTools extraction completed.">>)
                 /\ errors' = errors
                 /\ pc' = "scan"
            ELSE /\ status' = Emit(status, <<"Starting UVTools slice extraction...">>)
                 /\ errors' = Emit(errors, <<"Error in processing thread: extraction failed">>)
                 /\ pc' = "finally"
    /\ UNCHANGED <<editorVars, window, threads, signals, app_config, total_images, max_workers, is_running, listdir,
                   image_filenames_filtered, i, loaded, deques, tracker,
                   active_futures, yielded, processed_count, progress,
                   finished, output_folder, repack_calls, stop_iter>>

\* a scan that accepts an empty list
NoImagesFoundIgnored(total) == FALSE

\* line 140: if total_images == 0
NoImagesFound(total) == total = 0

\* lines 125-147
Scan ==
    /\ pc = "scan"
    /\ image_filenames_filtered' =
           FilterByIndex(all_image_filenames(listdir), app_config)
    /\ total_images' = Len(image_filenames_filtered')
    /\ IF NoImagesFound(total_images')
       THEN /\ errors' = Emit(errors, <<"No images found">>)
            /\ pc' = "finally"
            /\ UNCHANGED <<deques, i>>
       ELSE /\ errors' = errors
            /\ deques' = <<NewDeque(<<app_config.receding_layers>>, <<>>)>>
            /\ i' = 1
            /\ pc' = "check"
    /\ UNCHANGED <<editorVars, window, threads, signals, app_config, exit_codes, max_workers, is_running, listdir, loaded,
                   tracker, active_futures, yielded, processed_count, status,
                   progress, finished, output_folder, repack_calls,
                   session_temp_folder, stop_iter>>

\* a loop that never looks at the flag
StopRequestedIgnored(flag) == FALSE

\* line 151: if not self._is_running
StopRequested(flag) == ~flag

\* a repack that does not look at the flag
ShouldRepackAlways(cfg, flag) == cfg.input_mode = "uvtools"

\* line 208: the condition under which the slice file is repacked
ShouldRepack(cfg, flag) == cfg.input_mode = "uvtools" /\ flag

\* classified_rois of lines 163-167, and the tracker after them
RoisOf(binary_image) == identify_rois(binary_image, app_config.roi_min_size)

\* lines 118-123: input_path, the folder the layer files are read from
InputPath(cfg) ==
    IF cfg.input_mode = "uvtools" THEN <<"t", "/", "I">> ELSE <<"i">>

\* os.path.join(folder, name)
join(folder, name) == folder \o <<"/">> \o name

\* os.path.basename(path): what follows the last separator
basename(path) ==
    LET seps == { n \in 1..Len(path) : path[n] = "/" }
    IN IF seps = {} THEN path
       ELSE SubSeq(path, (CHOOSE n \in seps : \A o \in seps : o <= n) + 1, Len(path))

\* an output name that does not depend on the input file
output_filename_shared(filepath) == <<"o", "u", "t">>

\* line 98: output_filename = os.path.basename(filepath)
output_filename(filepath) == basename(filepath)

\* a loop that consults the tracker in every blending mode
UsesTrackerAlways(cfg) == TRUE

\* line 164: if self.app_config.blending_mode == 'roi_fade'
UsesTracker(cfg) == cfg.blending_mode = "roi_fade"

\* a loop that ends at the first unloadable image
AfterSkipAbort(idx) == [pc |-> "collect", i |-> idx]

\* line 161: continue
AfterSkip(idx) == [pc |-> "check", i |-> idx + 1]

\* a loop that calls the tracker before it looks at the loaded image
TrackerAfterSkipUpdated(trk, filename) ==
    tracker_update(trk, {}, get_numeric_part(filename))

\* lines 159-161: continue comes before the tracker call of lines 163-167
TrackerAfterSkip(trk, filename) == trk

\* lines 150-174: the stop check, the load and the ROI tracker
CheckAndLoad ==
    /\ pc = "check"
    /\ IF i > Len(image_filenames_filtered)
       THEN /\ pc' = "collect"
            /\ UNCHANGED <<status, i, loaded, tracker>>
       ELSE IF StopRequested(is_running)
       THEN /\ status' = Emit(status, <<"Processing stopped by user.">>)
            /\ pc' = "collect"
            /\ UNCHANGED <<i, loaded, tracker>>
       ELSE LET filename == image_filenames_filtered[i]
                img == load_image(filename)
            IN IF img = <<>>
               THEN /\ status' = Emit(status, <<"Analyzing", "Skipping unloadable image">>)
                    /\ i' = AfterSkip(i).i
                    /\ pc' = AfterSkip(i).pc
                    /\ tracker' = TrackerAfterSkip(tracker, filename)
                    /\ UNCHANGED loaded
               ELSE /\ status' = Emit(status, <<"Analyzing">>)
                    /\ IF UsesTracker(app_config)
                       THEN LET layer_index == get_numeric_part(filename)
                                rois == RoisOf(img[1])
                            IN /\ tracker' = tracker_update(tracker, rois, layer_index)
                               /\ loaded' = [filepath |-> join(InputPath(app_config), filename),
                                             binary_image |-> img[1],
                                             original_image |-> img[2],
                                             classified_rois |->
                                                 classify(tracker, rois, layer_index)]
                       ELSE /\ tracker' = tracker
                            /\ loaded' = [filepath |-> join(InputPath(app_config), filename),
                                          binary_image |-> img[1],
                                          original_image |-> img[2],
                                          classified_rois |-> {}]
                    /\ i' = i
                    /\ pc' = "submit"
    /\ UNCHANGED <<editorVars, window, threads, signals, app_config, total_images, exit_codes, max_workers, is_running, listdir,
                   image_filenames_filtered, deques, active_futures, yielded,
                   processed_count, progress, errors, finished, output_folder,
                   repack_calls, session_temp_folder, stop_iter>>

\* lines 176-185: executor.submit(...) with a copy of the cache
Submit ==
    /\ pc = "submit"
    /\ LET arg == SnapshotArg(deques, CacheId)
       IN /\ deques' = arg[1]
          /\ active_futures' = Append(active_futures,
                 [image_data |-> loaded,
                  prior_binary_masks_snapshot |-> arg[2],
                  iter |-> i,
                  state |-> "PENDING",
                  seen |-> <<>>])
    /\ pc' = "push"
    /\ UNCHANGED <<editorVars, window, threads, signals, app_config, total_images, exit_codes, max_workers, is_running, listdir,
                   image_filenames_filtered, i, loaded, tracker, yielded,
                   processed_count, status, progress, errors, finished,
                   output_folder, repack_calls, session_temp_folder, stop_iter>>

\* line 187: prior_binary_masks_cache.append(binary_image)
Push ==
    /\ pc = "push"
    /\ deques' = [deques EXCEPT ![CacheId] = DequeAppend(@, loaded.binary_image)]
    /\ i' = i + 1
    /\ pc' = "check"
    /\ UNCHANGED <<editorVars, window, threads, signals, app_config, total_images, exit_codes, max_workers, is_running, listdir,
                   image_filenames_filtered, loaded, tracker, active_futures,
                   yielded, processed_count, status, progress, errors, finished,
                   output_folder, repack_calls, session_temp_folder, stop_iter>>

(***************************************************************************)
(* The worker threads of the ThreadPoolExecutor.                           *)
(***************************************************************************)
Running == { k \in Futures : StateOf(k) = "RUNNING" }
Pending == { k \in Futures : StateOf(k) = "PENDING" }

\* a pool that starts a thread for every work item
WorkerFreeAlways(futs, workers) == TRUE

\* ThreadPoolExecutor(max_workers=...): a work item is taken only by one of
\* the max_workers pool threads, when it is not executing another item
WorkerFree(futs, workers) ==
    Cardinality({ k \in DOMAIN futs : futs[k].state = "RUNNING" }) < workers

\* a free worker takes the oldest work item that was not cancelled
StartTask ==
    /\ Pending # {}
    /\ WorkerFree(active_futures, max_workers)
    /\ LET k == CHOOSE x \in Pending : \A y \in Pending : x <= y
       IN active_futures' = [active_futures EXCEPT ![k].state = "RUNNING"]
    /\ UNCHANGED <<editorVars, window, threads, signals, app_config, total_images, exit_codes, max_workers, is_running, listdir, pc,
                   image_filenames_filtered, i, loaded, deques, tracker,
                   yielded, processed_count, status, progress, errors, finished,
                   output_folder, repack_calls, session_temp_folder, stop_iter>>

\* lines 85-96: the image a task computes from what it was given
TaskImage(image_data, masks, cfg) ==
    merge_to_output(image_data.original_image,
        process_z_blending(image_data.binary_image,
                           find_prior_combined_white_mask(masks),
                           cfg, image_data.classified_rois))

\* _process_single_image_task: reads its snapshot, computes and writes the
\* output file, or raises
RunTask(k) ==
    /\ k \in Running
    /\ LET task == active_futures[k]
           masks == deques[task.prior_binary_masks_snapshot].items
       IN \E ok \in BOOLEAN :
            IF ok
            THEN /\ active_futures' = [active_futures EXCEPT
                                          ![k].state = "FINISHED", ![k].seen = masks]
                 /\ output_folder' =
                        (output_filename(task.image_data.filepath) :>
                             TaskImage(task.image_data, masks, app_config))
                        @@ output_folder
            ELSE /\ active_futures' = [active_futures EXCEPT
                                          ![k].state = "FAILED", ![k].seen = masks]
                 /\ output_folder' = output_folder
    /\ UNCHANGED <<editorVars, window, threads, signals, app_config, total_images, exit_codes, max_workers, is_running, listdir, pc,
                   image_filenames_filtered, i, loaded, deques, tracker,
                   yielded, processed_count, status, progress, errors, finished,
                   repack_calls, session_temp_folder, stop_iter>>

(***************************************************************************)
(* The control thread after the submission loop.                           *)
(***************************************************************************)
\* a failure handler that cancels nothing
CancelNone(futs) == futs

\* Future.cancel() on every future: only a pending one is cancelled
CancelAll(futs) ==
    [k \in DOMAIN futs |->
        IF futs[k].state = "PENDING" THEN [futs[k] EXCEPT !.state = "CANCELLED"]
        ELSE futs[k]]

\* lines 190-204: one iteration of the as_completed loop
CollectNext(k) ==
    /\ pc = "collect"
    /\ k \in Futures \ yielded
    /\ StateOf(k) \in Terminated
    /\ yielded' = yielded \cup {k}
    /\ IF ~is_running
       THEN /\ pc' = "shutdown"
            /\ UNCHANGED <<processed_count, status, progress, errors,
                           is_running, active_futures>>
       ELSE IF StateOf(k) = "FINISHED"
       THEN /\ processed_count' = processed_count + 1
            /\ status' = Emit(status, <<"Completed processing images">>)
            /\ progress' = Emit(progress,
                   <<ProgressPercent(processed_count', total_images)>>)
            /\ pc' = "collect"
            /\ UNCHANGED <<errors, is_running, active_futures>>
       ELSE /\ errors' = Emit(errors, <<"An image processing task failed">>)
            /\ is_running' = FALSE
            /\ active_futures' = CancelAll(active_futures)
            /\ pc' = "shutdown"
            /\ UNCHANGED <<processed_count, status, progress>>
    /\ UNCHANGED <<editorVars, window, threads, signals, app_config, total_images, exit_codes, max_workers, listdir, image_filenames_filtered,
                   i, loaded, deques, tracker, finished, output_folder,
                   repack_calls, session_temp_folder, stop_iter>>

\* as_completed has yielded every future
CollectEnd ==
    /\ pc = "collect"
    /\ yielded = Futures
    /\ pc' = "shutdown"
    /\ UNCHANGED <<editorVars, window, threads, signals, app_config, total_images, exit_codes, max_workers, is_running, listdir,
                   image_filenames_filtered, i, loaded, deques, tracker,
                   active_futures, yielded, processed_count, status, progress,
                   errors, finished, output_folder, repack_calls,
                   session_temp_folder, stop_iter>>

\* a shutdown(wait=False): returns at once
PoolIdleNoWait(futs) == TRUE

\* shutdown(wait=True) returns when no task is pending or running
PoolIdle(futs) == \A k \in DOMAIN futs : futs[k].state \in Terminated

\* end of the with block, then lines 206-208
Shutdown ==
    /\ pc = "shutdown"
    /\ PoolIdle(active_futures)
    /\ status' = Emit(status, <<"All image processing tasks completed.">>)
    /\ pc' = IF ShouldRepack(app_config, is_running) THEN "repack" ELSE "finally"
    /\ UNCHANGED <<editorVars, window, threads, signals, app_config, total_images, exit_codes, max_workers, is_running, listdir,
                   image_filenames_filtered, i, loaded, deques, tracker,
                   active_futures, yielded, processed_count, progress, errors,
                   finished, output_folder, repack_calls, session_temp_folder,
                   stop_iter>>

\* _run_uvtools_repack: generate_uvtop_file raises when there is no processed
\* file; the repack subprocess succeeds or the wrapper raises
Repack ==
    /\ pc = "repack"
    /\ repack_calls' = repack_calls + 1
    /\ \E returncode \in ExitCodes :
         IF DOMAIN output_folder = {}
         THEN /\ returncode = 0
              /\ exit_codes' = exit_codes
              /\ status' = Emit(status, <<"Generating UVTools operation file...">>)
              /\ errors' = Emit(errors, <<"Error in processing thread: no processed files">>)
         ELSE IF repack_layers(returncode) = "final_output_path"
         THEN /\ exit_codes' = Append(exit_codes, returncode)
              /\ status' = Emit(status, <<"Generating UVTools operation file...",
                                          "Operation file generated.",
                                          "Repacking slice file with processed layers...",
                                          "Successfully created">>)
              /\ errors' = errors
         ELSE /\ status' = Emit(status, <<"Generating UVTools operation file...",
                                          "Operation file generated.",
                                          "Repacking slice file with processed layers...">>)
              /\ errors' = Emit(errors, <<"Error in processing thread: repacking failed">>)
              /\ exit_codes' = Append(exit_codes, returncode)
    /\ pc' = "finally"
    /\ UNCHANGED <<editorVars, window, threads, signals, app_config, total_images, max_workers, is_running, listdir,
                   image_filenames_filtered, i, loaded, deques, tracker,
                   active_futures, yielded, processed_count, progress,
                   finished, output_folder, session_temp_folder, stop_iter>>

\* a cleanup that runs only after a run that was neither stopped nor failed
ShouldCleanupOnSuccess(cfg, folder, flag) ==
    /\ cfg.input_mode = "uvtools"
    /\ cfg.uvtools_delete_temp_on_completion
    /\ folder = "exists"
    /\ flag

\* lines 216-217: the temp folder is removed when configured and present;
\* _is_running (flag) is not consulted
ShouldCleanup(cfg, folder, flag) ==
    /\ cfg.input_mode = "uvtools"
    /\ cfg.uvtools_delete_temp_on_completion
    /\ folder = "exists"

\* a final status that always reports success
FinalStatusAlwaysComplete(flag) == "Processing complete!"

\* lines 225-228
FinalStatus(flag) ==
    IF flag THEN "Processing complete!" ELSE "Processing stopped by user or error."

\* a finished_signal that is emitted at the end of the try block only
EmitFinishedUnlessError(count, errs) == IF errs = <<>> THEN count + 1 ELSE count

\* line 229: self.finished_signal.emit(), the last statement of finally
EmitFinished(count, errs) == count + 1

\* lines 215-229: the finally block
Finally ==
    /\ pc = "finally"
    /\ \E ok \in BOOLEAN :
         LET cleanup == ShouldCleanup(app_config, session_temp_folder, is_running)
             last == FinalStatus(is_running)
         IN IF ~cleanup
            THEN /\ ok
                 /\ status' = Emit(status, <<last>>)
                 /\ UNCHANGED <<errors, session_temp_folder, output_folder>>
            ELSE IF ok
            THEN /\ status' = Emit(status, <<"Deleting temporary folder",
                                             "Temporary files deleted.", last>>)
                 /\ session_temp_folder' = "deleted"
                 /\ output_folder' = <<>>
                 /\ errors' = errors
            ELSE /\ status' = Emit(status, <<"Deleting temporary folder", last>>)
                 /\ errors' = Emit(errors, <<"Could not delete temp folder">>)
                 /\ UNCHANGED <<session_temp_folder, output_folder>>
    /\ finished' = EmitFinished(finished, errors')
    /\ pc' = "done"
    /\ UNCHANGED <<editorVars, window, threads, signals, app_config, total_images, exit_codes, max_workers, is_running, listdir,
                   image_filenames_filtered, i, loaded, deques, tracker,
                   active_futures, yielded, processed_count, progress,
                   repack_calls, stop_iter>>

(***************************************************************************)
(* The GUI thread: stop_processing(), while the thread is running.         *)
(***************************************************************************)
stop_processing ==
    /\ pc # "done"
    /\ is_running
    /\ is_running' = FALSE
    /\ stop_iter' = <<IF pc \in {"submit", "push"} THEN i
                      ELSE IF i = 0 THEN 0 ELSE i - 1>>
    /\ UNCHANGED <<editorVars, window, threads, signals, app_config, total_images, exit_codes, max_workers, listdir, pc,
                   image_filenames_filtered, i, loaded, deques, tracker,
                   active_futures, yielded, processed_count, status, progress,
                   errors, finished, output_folder, repack_calls,
                   session_temp_folder>>

Next ==
    \/ Begin
    \/ Extract
    \/ Scan
    \/ CheckAndLoad
    \/ Submit
    \/ Push
    \/ StartTask
    \/ \E k \in Futures : RunTask(k)
    \/ \E k \in Futures : CollectNext(k)
    \/ CollectEnd
    \/ Shutdown
    \/ Repack
    \/ Finally
    \/ stop_processing

Spec == Init /\ [][Next]_vars

(***************************************************************************)
(* The run under a fair scheduler: the control thread and the workers are  *)
(* threads of the operating system and every subprocess, load and task     *)
(* returns, so a step of the run that is possible is eventually taken; the *)
(* user is never obliged to click Stop.  The steps of Scan and CollectNext *)
(* are recognised by what they do to pc and yielded.  The directories are  *)
(* one with an unreadable layer between two layers, one that begins with   *)
(* it and one without any layer, in every input and blending mode.         *)
(***************************************************************************)
ThreadStep ==
    \/ Begin
    \/ Extract
    \/ CheckAndLoad
    \/ Submit
    \/ Push
    \/ StartTask
    \/ \E k \in Futures : RunTask(k)
    \/ CollectEnd
    \/ Shutdown
    \/ Repack
    \/ Finally

ScanStep == pc = "scan" /\ pc' \in {"check", "finally"}

CollectStep ==
    /\ pc = "collect"
    /\ \E k \in Futures \ yielded :
         StateOf(k) \in Terminated /\ yielded' = yielded \cup {k}

InitFair ==
    /\ app_config \in { c \in Configs : /\ c.receding_layers = MaxReceding
                                        /\ c.start_index = <<>>
                                        /\ c.stop_index = <<>> }
    /\ max_workers \in 1..MaxWorkers
    /\ listdir \in { <<F_2, F_1, F_0>>, <<F_a2, F_1, F_2>>, <<F_txt>> }
    /\ is_running = TRUE
    /\ pc = "start"
    /\ image_filenames_filtered = <<>>
    /\ i = 0
    /\ loaded = <<>>
    /\ deques = <<>>
    /\ tracker = <<>>
    /\ active_futures = <<>>
    /\ yielded = {}
    /\ processed_count = 0
    /\ status = <<>>
    /\ progress = <<>>
    /\ errors = <<>>
    /\ finished = 0
    /\ output_folder = <<>>
    /\ repack_calls = 0
    /\ session_temp_folder = ""
    /\ stop_iter = <<>>
    /\ total_images = 0
    /\ exit_codes = <<>>
    /\ window = NoWindow
    /\ threads = <<>>
    /\ signals = <<>>
    /\ project = NewProject
    /\ commands = <<>>
    /\ call = NoCall
    /\ tools = NoToolChecked

SpecFair ==
    /\ InitFair
    /\ [][Next]_vars
    /\ WF_vars(ThreadStep)
    /\ WF_pc(ScanStep)
    /\ WF_yielded(CollectStep)

(***************************************************************************)
(* The run over a stack of five layers 0..4 with a window of two layers,   *)
(* unfiltered, in every input mode, blending mode and pool size.           *)
(***************************************************************************)
FiveLayers == <<F_3, F_0, F_4, F_2, F_a1>>

InitFiveLayers ==
    /\ app_config \in { c \in Configs : /\ c.receding_layers = 2
                                        /\ c.start_index = <<>>
                                        /\ c.stop_index = <<>> }
    /\ max_workers \in 1..MaxWorkers
    /\ listdir = FiveLayers
    /\ is_running = TRUE
    /\ pc = "start"
    /\ image_filenames_filtered = <<>>
    /\ i = 0
    /\ loaded = <<>>
    /\ deques = <<>>
    /\ tracker = <<>>
    /\ active_futures = <<>>
    /\ yielded = {}
    /\ processed_count = 0
    /\ status = <<>>
    /\ progress = <<>>
    /\ errors = <<>>
    /\ finished = 0
    /\ output_folder = <<>>
    /\ repack_calls = 0
    /\ session_temp_folder = ""
    /\ stop_iter = <<>>
    /\ total_images = 0
    /\ exit_codes = <<>>
    /\ window = NoWindow
    /\ threads = <<>>
    /\ signals = <<>>
    /\ project = NewProject
    /\ commands = <<>>
    /\ call = NoCall
    /\ tools = NoToolChecked

SpecFiveLayers == InitFiveLayers /\ [][Next]_vars

(***************************************************************************)
(* Properties.                                                             *)
(***************************************************************************)
SnapshotOf(k) == deques[active_futures[k].prior_binary_masks_snapshot].items
MaskOf(k) == active_futures[k].image_data.binary_image
FileOf(k) == basename(active_futures[k].image_data.filepath)
Executed == {"FINISHED", "FAILED"}

\* C1: the snapshot handed to a task is an independent copy.  In every step:
\* a task being submitted gets exactly the items the cache holds at that
\* moment; the deque a submitted task refers to never changes afterwards,
\* whatever the control thread pushes or evicts; and what a task reads when a
\* worker executes it is the content of that deque.
C1_SnapshotIndependent ==
    [][ /\ \A k \in Futures :
             /\ k \in DOMAIN active_futures'
             /\ active_futures'[k].prior_binary_masks_snapshot
                    = active_futures[k].prior_binary_masks_snapshot
             /\ deques'[active_futures'[k].prior_binary_masks_snapshot].items
                    = SnapshotOf(k)
             /\ (StateOf(k) = "RUNNING" /\ active_futures'[k].state \in Executed)
                    => active_futures'[k].seen = SnapshotOf(k)
        /\ Len(active_futures') > Len(active_futures)
             => deques'[active_futures'[Len(active_futures')]
                            .prior_binary_masks_snapshot].items
                    = deques[CacheId].items
      ]_vars

\* a task has read its snapshot after the cache has moved on
C1_Witness ==
    \E k \in Futures :
        /\ StateOf(k) = "FINISHED"
        /\ active_futures[k].seen = SnapshotOf(k)
        /\ active_futures[k].seen # <<>>
        /\ deques[CacheId].items # SnapshotOf(k)
        /\ Len(active_futures) > k

\* C2: the mask history never holds more than receding_layers masks, and the
\* snapshot of a task holds only masks of layers submitted before it, never
\* the task's own mask.
C2_HistoryBounded ==
    /\ deques # <<>> => Len(deques[CacheId].items) <= app_config.receding_layers
    /\ \A k \in Futures :
         /\ Len(SnapshotOf(k)) <= app_config.receding_layers
         /\ \A n \in 1..Len(SnapshotOf(k)) :
              /\ \E j \in 1..(k - 1) : SnapshotOf(k)[n] = MaskOf(j)
              /\ SnapshotOf(k)[n] # MaskOf(k)

\* a full window after an eviction
C2_Witness ==
    /\ Len(active_futures) >= 3
    /\ app_config.receding_layers = 1
    /\ Len(deques[CacheId].items) = 1
    /\ Len(SnapshotOf(3)) = 1
    /\ pc = "check"

\* C3: the k-th submitted task (k from 0) gets a snapshot of length
\* min(k, receding_layers) holding the masks of the min(k, receding_layers)
\* layers submitted right before it, oldest first.
C3_SnapshotIsFifoWindow ==
    \A k \in Futures :
        LET n == Min(k - 1, app_config.receding_layers)
        IN SnapshotOf(k) = [j \in 1..n |-> MaskOf(k - 1 - n + j)]

\* the fourth task of a run with a window of two: the first mask was evicted
C3_Witness ==
    /\ Len(active_futures) = 4
    /\ app_config.receding_layers = 2
    /\ SnapshotOf(4) = <<MaskOf(2), MaskOf(3)>>
    /\ StateOf(4) = "FINISHED"

\* the numeric index each file name of the pool embeds
EmbeddedIndex(f) ==
    CASE f = F_2 -> IntKey(2)
      [] f = F_10 -> IntKey(10)
      [] f = F_a2 -> IntKey(2)
      [] f = F_1 -> IntKey(1)
      [] f = F_txt -> IntKey(0)
      [] f = F_0 -> IntKey(0)
      [] f = F_a1 -> IntKey(1)
      [] f = F_3 -> IntKey(3)
      [] f = F_4 -> IntKey(4)
      [] OTHER -> INF

\* C4: tasks are submitted in ascending order of the numeric index embedded
\* in the file name, files without an index after all indexed files, one
\* task per file.
C4_AscendingSubmission ==
    \A j, k \in Futures :
        j < k => /\ KeyLE(EmbeddedIndex(FileOf(j)), EmbeddedIndex(FileOf(k)))
                 /\ FileOf(j) # FileOf(k)
                 /\ EmbeddedIndex(FileOf(j)) = INF => EmbeddedIndex(FileOf(k)) = INF

\* a directory listed as 10, a, 2 is submitted as 2, 10, a
C4_Witness ==
    /\ listdir = <<F_10, F_a, F_2>>
    /\ Len(active_futures) = 3
    /\ FileOf(1) = F_2 /\ FileOf(2) = F_10 /\ FileOf(3) = F_a

\* what the scanned input alone determines: the loadable layers, in order
ExpectedLayers ==
    SelectSeq2(image_filenames_filtered, { f \in NamePool \ Unreadable : TRUE })

ExpectedImageData(f) ==
    LET img == load_image(f)
    IN [filepath |-> join(InputPath(app_config), f),
        binary_image |-> img[1], original_image |-> img[2],
        classified_rois |->
            IF app_config.blending_mode = "roi_fade"
            THEN { [pixels |-> r, classification |-> "Model"] :
                     r \in identify_rois(img[1], app_config.roi_min_size) }
            ELSE {}]

ExpectedHistory(layers, k) ==
    LET n == Min(k - 1, app_config.receding_layers)
    IN [j \in 1..n |-> load_image(layers[k - 1 - n + j])[1]]

\* C5: the inputs of every task (mask, original image, classified ROIs,
\* history) and every output image written are determined by the scanned
\* layer sequence and the configuration alone: they are the same for every
\* pool size and every order in which the workers start and complete.
C5_Deterministic ==
    LET layers == ExpectedLayers
    IN /\ Len(active_futures) <= Len(layers)
       /\ \A k \in Futures :
            LET history == ExpectedHistory(layers, k)
            IN /\ active_futures[k].image_data = ExpectedImageData(layers[k])
               /\ SnapshotOf(k) = history
               /\ StateOf(k) \in Executed => active_futures[k].seen = history
               /\ FileOf(k) \in DOMAIN output_folder =>
                      output_folder[FileOf(k)] =
                          TaskImage(ExpectedImageData(layers[k]), history, app_config)
       /\ \A f \in DOMAIN output_folder : \E k \in Futures : FileOf(k) = f

\* two workers: the second layer is written before the first is
C5_Witness ==
    /\ max_workers = 2
    /\ Len(active_futures) >= 2
    /\ StateOf(1) = "RUNNING"
    /\ StateOf(2) = "FINISHED"
    /\ FileOf(2) \in DOMAIN output_folder
    /\ active_futures[2].seen # <<>>

\* C6: once stop_processing() was called, only the iteration whose stop check
\* had already passed may still submit: no task belongs to a later iteration.
C6_NoSubmissionAfterStop ==
    stop_iter # <<>> => \A k \in Futures : active_futures[k].iter <= stop_iter[1]

\* stop arrived during the first of several iterations, whose task was
\* still submitted, and the run ended without any further task
C6_Witness ==
    /\ stop_iter = <<1>>
    /\ Len(image_filenames_filtered) >= 3
    /\ Len(active_futures) = 1
    /\ active_futures[1].iter = 1
    /\ pc = "done"

Has(log, msg) == \E n \in 1..Len(log) : log[n] = msg
Count(log, msg) == Cardinality({ n \in 1..Len(log) : log[n] = msg })
TaskFailed == "An image processing task failed"

\* C7: after a user stop, once the control thread has left its loops and
\* waits for the pool, a task that was submitted but has not started never
\* starts executing.
C7_QueuedTasksNeverRunAfterStop ==
    [][ (stop_iter # <<>> /\ ~Has(errors, TaskFailed) /\ pc = "shutdown")
          => \A k \in Futures :
                StateOf(k) = "PENDING" => active_futures'[k].state # "RUNNING"
      ]_vars

\* C8: no task is submitted after some task of the run has failed.
C8_NoSubmissionAfterFailure ==
    [][ (\E k \in Futures : StateOf(k) = "FAILED")
          => Len(active_futures') = Len(active_futures)
      ]_vars

\* C9: a failed task the orchestrator observes gives exactly one task-failure
\* error; from then on the flag is down, no submitted task is left waiting to
\* start, no further completion is consumed, and the run never reports the
\* completed outcome but ends with the stopped-or-error status.
C9_FailureHandled ==
    /\ Count(errors, TaskFailed) <= 1
    /\ Has(errors, TaskFailed) =>
         /\ ~is_running
         /\ Pending = {}
         /\ pc \in {"shutdown", "finally", "done"}
         /\ \E k \in yielded : StateOf(k) = "FAILED"
         /\ processed_count = Cardinality(yielded) - 1
         /\ ~Has(status, "Processing complete!")
         /\ pc = "done" =>
              status[Len(status)] = "Processing stopped by user or error."
    /\ (\E k \in yielded : StateOf(k) = "FAILED")
         => Has(errors, TaskFailed) \/ stop_iter # <<>>

\* a run that observed a failure, cancelled a queued task and ended
C9_Witness ==
    /\ Has(errors, TaskFailed)
    /\ \E k \in Futures : StateOf(k) = "CANCELLED"
    /\ \E k \in Futures : StateOf(k) = "FINISHED" /\ k \notin yielded
    /\ pc = "done"

\* C10 as stated: repack is invoked at most once, and never in a run in which
\* a stop was requested, a task failure was observed, extraction failed or
\* no images were found.
C10_RepackOnlyWithoutStop ==
    /\ repack_calls <= 1
    /\ repack_calls >= 1 =>
         /\ stop_iter = <<>>
         /\ ~Has(errors, TaskFailed)
         /\ ~Has(errors, "Error in processing thread: extraction failed")
         /\ ~Has(errors, "No images found")

\* C10, amended: repack is invoked at most once, and only when the control
\* thread, after every task has terminated, finds the run in uvtools mode
\* with the flag still up and no error emitted so far (no task failure, no
\* extraction failure, at least one image found).
C10_RepackOnlyWhenCompleted ==
    [][ /\ repack_calls' # repack_calls
             => pc = "repack" /\ repack_calls = 0 /\ repack_calls' = 1
        /\ (pc' = "repack" /\ pc # "repack")
             => /\ is_running
                /\ app_config.input_mode = "uvtools"
                /\ errors = <<>>
                /\ image_filenames_filtered # <<>>
                /\ \A k \in Futures : StateOf(k) \in Terminated
      ]_vars

\* a completed uvtools run that repacked
C10_Witness ==
    /\ repack_calls = 1
    /\ is_running
    /\ Has(status, "Successfully created")
    /\ pc = "done"

\* C11: cleanup is independent of outcome.  In uvtools mode with
\* delete-temp-on-completion enabled, every run that created the session temp
\* folder has, by the time it ends, attempted to remove it: the deletion was
\* announced, and either the folder is gone or the failed removal was
\* reported; this holds whether the run completed, was stopped, had a task
\* failure, had a collaborator failure or found no images.
C11_CleanupIndependentOfOutcome ==
    ( /\ pc = "done"
      /\ app_config.input_mode = "uvtools"
      /\ app_config.uvtools_delete_temp_on_completion
      /\ session_temp_folder # "" )
    => /\ Count(status, "Deleting temporary folder") = 1
       /\ \/ session_temp_folder = "deleted"
          \/ Has(errors, "Could not delete temp folder")

\* a run that ended by a task failure and removed its temp folder
C11_Witness ==
    /\ pc = "done"
    /\ Has(errors, TaskFailed)
    /\ app_config.uvtools_delete_temp_on_completion
    /\ session_temp_folder = "deleted"

\* C12: a run follows the order Extracting (optional) -> Scanning -> Running
\* -> terminal outcome -> Cleanup -> Idle.  A task exists, or the submission
\* loop is active, only after scanning produced the layer list (and, in
\* uvtools mode, after extraction completed); repack, the temp-folder
\* deletion and the finished signal happen only when every submitted task has
\* terminated (finished, failed or cancelled), so no worker is executing or
\* writing once cleanup starts; the finished signal is emitted once, last.
C12_RunOrder ==
    /\ (Futures # {} \/ pc \in {"check", "submit", "push", "collect", "shutdown"})
         => /\ image_filenames_filtered # <<>>
            /\ total_images = Len(image_filenames_filtered)
            /\ app_config.input_mode = "uvtools"
                 => /\ Has(status, "UVTools extraction completed.")
                    /\ session_temp_folder # ""
    /\ (pc = "scan" /\ app_config.input_mode = "uvtools")
         => Has(status, "UVTools extraction completed.")
    /\ pc \in {"start", "extract", "scan"} => Futures = {} /\ repack_calls = 0
    /\ ( \/ pc \in {"repack", "finally", "done"}
         \/ repack_calls > 0
         \/ finished > 0
         \/ session_temp_folder = "deleted"
         \/ Has(status, "Deleting temporary folder") )
         => \A k \in Futures : StateOf(k) \in Terminated
    /\ (session_temp_folder = "deleted" \/ Has(status, "Deleting temporary folder"))
         => pc = "done"
    /\ repack_calls > 0 => pc \in {"finally", "done"}
    /\ finished = (IF pc = "done" THEN 1 ELSE 0)

\* a uvtools run whose tasks were partly cancelled and partly finished, and
\* whose temp folder was removed afterwards
C12_Witness ==
    /\ pc = "done"
    /\ app_config.input_mode = "uvtools"
    /\ \E k \in Futures : StateOf(k) = "CANCELLED"
    /\ \E k \in Futures : StateOf(k) = "FINISHED"
    /\ session_temp_folder = "deleted"
    /\ finished = 1

\* the positions of the layer list the loop has already passed that hold an
\* unreadable image
PassedUnreadable ==
    { j \in 1..Len(image_filenames_filtered) :
          j < i /\ image_filenames_filtered[j] \in Unreadable }

\* the loop has ended without a stop request
LoopRanToEnd ==
    /\ pc \in {"collect", "shutdown", "repack", "finally", "done"}
    /\ image_filenames_filtered # <<>>
    /\ stop_iter = <<>>

\* C13 as stated: an unreadable layer image aborts the run before any task is
\* submitted and is surfaced immediately as an error.
C13_UnreadableAborts ==
    PassedUnreadable # {} => errors # <<>> /\ Futures = {}

\* C13, amended: an unreadable layer image does not abort the run.  The layer
\* is skipped with one status message, no task is submitted for it, no error
\* is signalled at that point, and the loop goes on: unless a stop is
\* requested, every readable layer of the list still gets its task, in order.
C13_UnreadableSkipped ==
    /\ Count(status, "Skipping unloadable image") = Cardinality(PassedUnreadable)
    /\ \A j \in PassedUnreadable :
         \A k \in Futures : FileOf(k) # image_filenames_filtered[j]
    /\ (PassedUnreadable # {} /\ pc \in {"check", "submit", "push"}) => errors = <<>>
    /\ LoopRanToEnd =>
         [k \in Futures |-> FileOf(k)] =
             SelectSeq2(image_filenames_filtered, NamePool \ Unreadable)

\* a run that met an unreadable layer, skipped it, processed the other two
\* layers and completed without any error
C13_Witness ==
    /\ pc = "done"
    /\ PassedUnreadable # {}
    /\ Cardinality(Futures) = 2
    /\ \A k \in Futures : StateOf(k) = "FINISHED"
    /\ errors = <<>>
    /\ is_running

\* extraction, where the run has one, succeeded
ExtractionOk ==
    app_config.input_mode = "uvtools" => (exit_codes # <<>> /\ exit_codes[1] = 0)

\* scanning and filtering ended with no layer file
NoLayerRemains ==
    /\ pc \in {"finally", "done"}
    /\ total_images = 0
    /\ image_filenames_filtered = <<>>
    /\ ExtractionOk

\* C14 as stated: when no layer file remains after scanning and filtering, the
\* run reports exactly one error, creates no task, does not invoke repack and
\* emits the finished signal.
C14_NoImagesExactlyOneError ==
    (NoLayerRemains /\ pc = "done")
    => /\ Len(errors) = 1
       /\ Futures = {}
       /\ repack_calls = 0
       /\ finished = 1

\* C14, amended: when no layer file remains after scanning and filtering, the
\* run reports the no-images error exactly once, and no other error except
\* possibly one failure to delete the temp folder; it creates no history
\* deque and no task, does not invoke repack, and ends by emitting the
\* finished signal once.
C14_NoImagesReported ==
    NoLayerRemains
    => /\ Count(errors, "No images found") = 1
       /\ \A n \in 1..Len(errors) :
            errors[n] \in {"No images found", "Could not delete temp folder"}
       /\ Count(errors, "Could not delete temp folder") <= 1
       /\ Has(errors, "Could not delete temp folder")
            => ShouldCleanup(app_config, "exists", is_running)
       /\ Futures = {}
       /\ deques = <<>>
       /\ repack_calls = 0
       /\ ~Has(status, "All image processing tasks completed.")
       /\ finished = (IF pc = "done" THEN 1 ELSE 0)

\* a uvtools run that found no layer file among the extracted files, reported
\* it, and then also failed to delete its temp folder
C14_Witness ==
    /\ pc = "done"
    /\ NoLayerRemains
    /\ listdir # <<>>
    /\ errors = <<"No images found", "Could not delete temp folder">>
    /\ finished = 1

LastStatus == status[Len(status)]

\* the run ended with a stop requested and no task failure observed
EndedByStop == pc = "done" /\ stop_iter # <<>> /\ ~Has(errors, TaskFailed)

\* the run ended after a task failure was observed
EndedByFailure == pc = "done" /\ Has(errors, TaskFailed)

\* C15 as stated: a run ended by a user stop emits no error signal, and its
\* terminal status is different from the terminal status of a run ended by a
\* task failure (which is "Processing stopped by user or error.").
C15_StopDistinctFromFailure ==
    /\ EndedByFailure => LastStatus = "Processing stopped by user or error."
    /\ EndedByStop
         => /\ errors = <<>>
            /\ LastStatus # "Processing stopped by user or error."

\* C15, amended: a stop is not reported as a task failure, but the terminal
\* status does not tell the two apart.  A run ended by a stop and a run ended
\* by a task failure both end with "Processing stopped by user or error.";
\* every other run ends with "Processing complete!".  A run whose submission
\* loop noticed the stop says so once ("Processing stopped by user.") and
\* emits no error except a failed deletion of the temp folder; a failure is
\* told apart by its error signal only.
C15_StopSharesTerminalStatus ==
    /\ pc = "done"
         => LastStatus = (IF stop_iter # <<>> \/ Has(errors, TaskFailed)
                          THEN "Processing stopped by user or error."
                          ELSE "Processing complete!")
    /\ Has(status, "Processing stopped by user.")
         => /\ stop_iter # <<>>
            /\ Count(status, "Processing stopped by user.") = 1
            /\ \A n \in 1..Len(errors) : errors[n] = "Could not delete temp folder"
    /\ Has(errors, TaskFailed) => ~Has(status, "Processing stopped by user.")

\* a run stopped by the user during submission that ended without any error
\* and with the same terminal status a failed run has
C15_Witness ==
    /\ EndedByStop
    /\ Has(status, "Processing stopped by user.")
    /\ errors = <<>>
    /\ Futures # {}
    /\ LastStatus = "Processing stopped by user or error."

\* the output files of the tasks that completed
WrittenFiles == { FileOf(k) : k \in { n \in Futures : StateOf(n) = "FINISHED" } }

\* C16: partial output is preserved.  When a run that was stopped by the user
\* or that observed a task failure has finished, every output image written
\* by a task that completed is still present on disk.
C16_PartialOutputPreserved ==
    (pc = "done" /\ (stop_iter # <<>> \/ Has(errors, TaskFailed)))
    => WrittenFiles \subseteq DOMAIN output_folder

\* C17: when the repack collaborator fails, the processed images are still in
\* the working directory at the end of the run.
C17_ImagesRemainAfterRepackFailure ==
    (pc = "done" /\ Has(errors, "Error in processing thread: repacking failed"))
    => /\ WrittenFiles # {}
       /\ \A f \in WrittenFiles : f \in DOMAIN output_folder

\* C18: a non-success exit of the extraction or repack subprocess fails the
\* run.  After the extraction subprocess exited with a non-zero code the
\* error signal carries the extraction failure, nothing is scanned, no layer
\* is loaded, no task is submitted, repack is not invoked and the run goes
\* straight to its end; after the repack subprocess exited with a non-zero
\* code the error signal carries the repack failure and no success is
\* announced.
C18_NonSuccessExitFails ==
    /\ (exit_codes # <<>> /\ exit_codes[1] # 0)
         => /\ Has(errors, "Error in processing thread: extraction failed")
            /\ ~Has(status, "UVTools extraction completed.")
            /\ pc \in {"finally", "done"}
            /\ image_filenames_filtered = <<>> /\ total_images = 0
            /\ loaded = <<>> /\ tracker = <<>> /\ deques = <<>>
            /\ ~Has(status, "Analyzing")
            /\ Futures = {}
            /\ repack_calls = 0
            /\ Len(exit_codes) = 1
    /\ (Len(exit_codes) = 2 /\ exit_codes[2] # 0)
         => /\ Has(errors, "Error in processing thread: repacking failed")
            /\ ~Has(status, "Successfully created")
            /\ pc \in {"finally", "done"}
    /\ Len(exit_codes) <= 2

\* a run whose extraction subprocess exited with code 2 and that ended
C18_Witness ==
    /\ pc = "done"
    /\ exit_codes = <<2>>
    /\ Has(errors, "Error in processing thread: extraction failed")
    /\ finished = 1

(***************************************************************************)
(* The progress computation on its own: a run of total_images tasks whose  *)
(* completions are observed one after the other (lines 193-196).           *)
(***************************************************************************)
MaxTotal == 50

InitProgress ==
    /\ total_images \in 1..MaxTotal
    /\ processed_count = 0
    /\ progress = <<>>
    /\ app_config \in { c \in Configs : BaseConfig(c) /\ c.start_index = <<>>
                                          /\ c.stop_index = <<>> }
    /\ max_workers = MaxWorkers
    /\ is_running = TRUE
    /\ listdir = <<>>
    /\ pc = "collect"
    /\ image_filenames_filtered = <<>>
    /\ i = 0
    /\ loaded = <<>>
    /\ deques = <<>>
    /\ tracker = <<>>
    /\ active_futures = <<>>
    /\ yielded = {}
    /\ status = <<>>
    /\ errors = <<>>
    /\ finished = 0
    /\ output_folder = <<>>
    /\ repack_calls = 0
    /\ session_temp_folder = ""
    /\ stop_iter = <<>>
    /\ exit_codes = <<>>
    /\ window = NoWindow
    /\ threads = <<>>
    /\ signals = <<>>
    /\ project = NewProject
    /\ commands = <<>>
    /\ call = NoCall
    /\ tools = NoToolChecked

\* lines 193-196: one more successful completion is observed
ProgressUpdate ==
    /\ processed_count < total_images
    /\ processed_count' = processed_count + 1
    /\ progress' = Emit(progress, <<ProgressPercent(processed_count', total_images)>>)
    /\ UNCHANGED <<editorVars, window, threads, signals, app_config, max_workers, is_running, listdir, pc,
                   image_filenames_filtered, i, loaded, deques, tracker,
                   active_futures, yielded, status, errors, finished,
                   output_folder, repack_calls, session_temp_folder, stop_iter,
                   total_images, exit_codes>>

NextProgress == ProgressUpdate

SpecProgress == InitProgress /\ [][NextProgress]_vars

\* C19: every emitted percentage equals floor(100 * completed / total), where
\* completed is the number of successful completions observed so far (the
\* n-th emission follows the n-th completion); the emitted values are
\* non-decreasing, lie in 0..100 and depend only on that number.
C19_ProgressIsFloor ==
    /\ Len(progress) = processed_count
    /\ \A n \in 1..Len(progress) :
         /\ progress[n] = (100 * n) \div total_images
         /\ progress[n] \in 0..100
         /\ n > 1 => progress[n - 1] <= progress[n]

\* the path a task writes its output image to, inside the output folder
OutputPathOf(k) == output_filename(active_futures[k].image_data.filepath)

\* C20: no write-write conflict.  Within one run no two tasks have the same
\* output path: the output name of a task is the name of its own input file
\* as the directory listing gave it, and these names are pairwise different;
\* hence, as long as the output folder exists, it holds one file per
\* completed task, whatever the interleaving of the workers.
C20_NoWriteWriteConflict ==
    /\ \A j, k \in Futures : j # k => OutputPathOf(j) # OutputPathOf(k)
    /\ \A k \in Futures :
         /\ OutputPathOf(k) = image_filenames_filtered[active_futures[k].iter]
         /\ \E n \in 1..Len(listdir) : listdir[n] = OutputPathOf(k)
    /\ session_temp_folder # "deleted"
         => /\ DOMAIN output_folder =
                   { OutputPathOf(k) : k \in { n \in Futures : StateOf(n) = "FINISHED" } }
            /\ Cardinality(DOMAIN output_folder) =
                   Cardinality({ n \in Futures : StateOf(n) = "FINISHED" })

\* two workers were executing at the same time and both wrote their file
C20_Witness ==
    /\ max_workers = 2
    /\ \E j, k \in Futures :
         /\ j < k
         /\ StateOf(j) = "RUNNING" /\ StateOf(k) = "FINISHED"
         /\ OutputPathOf(k) \in DOMAIN output_folder
    /\ Cardinality(Futures) = 3

\* the number of layers the loop has loaded so far
LoadedSoFar == Cardinality(Futures) + (IF pc = "submit" THEN 1 ELSE 0)

\* C21: in roi_fade mode the ROI tracker has received exactly one call per
\* loaded layer, in submission order, each with that layer's index and
\* regions, and the call for a layer precedes the submission of its task (in
\* every state the tracker is determined by the layers loaded so far, so no
\* worker step changes it); every task carries the classification of its own
\* layer's regions.  In fixed_fade mode the tracker is never called and every
\* task receives an empty ROI list.
C21_TrackerSerialized ==
    /\ app_config.blending_mode = "roi_fade"
         => /\ Len(tracker) = LoadedSoFar
            /\ \A k \in Futures :
                 /\ tracker[k] = <<EmbeddedIndex(FileOf(k)),
                                   identify_rois(MaskOf(k), app_config.roi_min_size)>>
                 /\ { r.pixels : r \in active_futures[k].image_data.classified_rois }
                        = tracker[k][2]
            /\ pc = "submit"
                 => tracker[Len(tracker)] =
                        <<EmbeddedIndex(basename(loaded.filepath)),
                          identify_rois(loaded.binary_image, app_config.roi_min_size)>>
    /\ app_config.blending_mode = "fixed_fade"
         => /\ tracker = <<>>
            /\ \A k \in Futures : active_futures[k].image_data.classified_rois = {}
            /\ pc = "submit" => loaded.classified_rois = {}

\* a roi_fade run in which the tracker was called for three layers while an
\* earlier layer's task was still executing
C21_Witness ==
    /\ app_config.blending_mode = "roi_fade"
    /\ Len(tracker) = 3
    /\ pc = "submit"
    /\ \E k \in Futures : StateOf(k) = "RUNNING"
    /\ \E k \in Futures : StateOf(k) = "FINISHED"

(***************************************************************************)
(* The window (ImageProcessorApp in ui_components.py) and the pipeline     *)
(* threads it starts.  app_config is the global config object: the window  *)
(* writes it in save_settings and every thread is built with a reference   *)
(* to it.  A thread is followed through the signals it sends to the window *)
(* (error_signal, finished_signal), which Qt queues for the GUI thread.    *)
(***************************************************************************)
MaxThreads == 2

\* the settings the user can choose between in the widgets
WidgetChoices ==
    { c \in Configs : /\ c.blending_mode = "fixed_fade"
                      /\ c.receding_layers = MaxReceding
                      /\ c.start_index = <<>>
                      /\ c.stop_index = <<>> }

pipelineVars ==
    <<max_workers, is_running, listdir, pc, image_filenames_filtered, i, loaded,
      deques, tracker, active_futures, yielded, processed_count, status,
      progress, errors, finished, output_folder, repack_calls,
      session_temp_folder, stop_iter, total_images, exit_codes>>

\* __init__: load_settings fills the widgets from the config object
InitGui ==
    /\ app_config \in WidgetChoices
    /\ window = [widgets |-> app_config,
                 tab_enabled |-> TRUE,
                 button_enabled |-> TRUE,
                 processor_thread |-> 0,
                 dialogs |-> 0,
                 closed |-> FALSE]
    /\ threads = <<>>
    /\ signals = <<>>
    /\ project = NewProject
    /\ commands = <<>>
    /\ call = NoCall
    /\ tools = NoToolChecked
    /\ max_workers = MaxWorkers
    /\ is_running = TRUE
    /\ listdir = <<>>
    /\ pc = "start"
    /\ image_filenames_filtered = <<>>
    /\ i = 0
    /\ loaded = <<>>
    /\ deques = <<>>
    /\ tracker = <<>>
    /\ active_futures = <<>>
    /\ yielded = {}
    /\ processed_count = 0
    /\ status = <<>>
    /\ progress = <<>>
    /\ errors = <<>>
    /\ finished = 0
    /\ output_folder = <<>>
    /\ repack_calls = 0
    /\ session_temp_folder = ""
    /\ stop_iter = <<>>
    /\ total_images = 0
    /\ exit_codes = <<>>

\* QThread.isRunning(): run() has not returned yet
isRunning(t) == threads[t].phase # "ended"

\* the user can operate the main window: it is open and no modal dialog is up
Interactive == ~window.closed /\ window.dialogs = 0

\* save_settings: the values of the widgets are written into the config object
save_settings(win) == win.widgets

\* processing_finished, lines 491-494
processing_finished(win) ==
    [win EXCEPT !.tab_enabled = TRUE, !.button_enabled = TRUE, !.processor_thread = 0]

\* the user changes a setting in the (enabled) tab widget
EditSettings ==
    /\ Interactive
    /\ window.tab_enabled
    /\ \E w \in WidgetChoices \ {window.widgets} :
         window' = [window EXCEPT !.widgets = w]
    /\ UNCHANGED <<app_config, threads, signals, pipelineVars, editorVars>>

\* toggle_processing, lines 442-448, with start_processing, lines 450-478
toggle_processing ==
    /\ Interactive
    /\ window.button_enabled
    /\ IF window.processor_thread # 0 /\ isRunning(window.processor_thread)
       THEN /\ threads' = [threads EXCEPT ![window.processor_thread].is_running = FALSE]
            /\ window' = [window EXCEPT !.button_enabled = FALSE]
            /\ UNCHANGED <<app_config, signals>>
       ELSE /\ app_config' = save_settings(window)
            /\ \E valid \in BOOLEAN :
                 IF valid
                 THEN /\ Len(threads) < MaxThreads
                      /\ threads' = Append(threads,
                             [app_config_at_start |-> app_config',
                              is_running |-> TRUE,
                              phase |-> "run"])
                      /\ window' = [window EXCEPT !.tab_enabled = FALSE,
                                                  !.button_enabled = TRUE,
                                                  !.processor_thread = Len(threads) + 1]
                 ELSE /\ threads' = threads
                      /\ window' = [window EXCEPT !.dialogs = @ + 1]
            /\ UNCHANGED signals
    /\ UNCHANGED <<pipelineVars, editorVars>>

\* run() emits error_signal (lines 141, 199, 213) and goes on: it waits for
\* the executing tasks and runs the finally block
ThreadError(t) ==
    /\ threads[t].phase = "run"
    /\ \E task_failed \in BOOLEAN :
         threads' = [threads EXCEPT
                        ![t].phase = "failed",
                        ![t].is_running = IF task_failed THEN FALSE ELSE @]
    /\ signals' = Append(signals, <<t, "error_signal">>)
    /\ UNCHANGED <<app_config, window, pipelineVars, editorVars>>

\* the finally block reads the config object (lines 216-217) and emits
\* error_signal when the temp folder cannot be removed (line 223)
ThreadCleanupError(t) ==
    /\ threads[t].phase \in {"run", "failed"}
    /\ app_config.input_mode = "uvtools"
    /\ app_config.uvtools_delete_temp_on_completion
    /\ threads' = [threads EXCEPT ![t].phase = "cleanup_failed"]
    /\ signals' = Append(signals, <<t, "error_signal">>)
    /\ UNCHANGED <<app_config, window, pipelineVars, editorVars>>

\* line 229: finished_signal, then run() returns
ThreadFinish(t) ==
    /\ isRunning(t)
    /\ threads' = [threads EXCEPT ![t].phase = "ended"]
    /\ signals' = Append(signals, <<t, "finished_signal">>)
    /\ UNCHANGED <<app_config, window, pipelineVars, editorVars>>

\* the GUI event loop delivers the oldest queued signal: show_error opens its
\* modal dialog (lines 485-488), processing_finished runs at once
DeliverSignal ==
    /\ ~window.closed
    /\ signals # <<>>
    /\ signals' = Tail(signals)
    /\ window' = IF Head(signals)[2] = "error_signal"
                 THEN [window EXCEPT !.dialogs = @ + 1]
                 ELSE processing_finished(window)
    /\ UNCHANGED <<app_config, threads, pipelineVars, editorVars>>

\* the user dismisses a dialog; its handler then calls processing_finished
\* (lines 476-478 and 489)
DismissDialog ==
    /\ ~window.closed
    /\ window.dialogs > 0
    /\ window' = processing_finished([window EXCEPT !.dialogs = @ - 1])
    /\ UNCHANGED <<app_config, threads, signals, pipelineVars, editorVars>>

\* closeEvent, lines 435-440
closeEvent ==
    /\ Interactive
    /\ app_config' = save_settings(window)
    /\ threads' = IF window.processor_thread # 0 /\ isRunning(window.processor_thread)
                  THEN [threads EXCEPT ![window.processor_thread].is_running = FALSE]
                  ELSE threads
    /\ window' = [window EXCEPT !.closed = TRUE]
    /\ UNCHANGED <<signals, pipelineVars, editorVars>>

NextGui ==
    \/ EditSettings
    \/ toggle_processing
    \/ \E t \in DOMAIN threads : ThreadError(t)
    \/ \E t \in DOMAIN threads : ThreadCleanupError(t)
    \/ \E t \in DOMAIN threads : ThreadFinish(t)
    \/ DeliverSignal
    \/ DismissDialog
    \/ closeEvent

SpecGui == InitGui /\ [][NextGui]_vars

\* C22: config is read-only for the duration of a run.  While a pipeline
\* thread has not returned from run() (it, or a task it waits for, can still
\* read the config object), the config object holds the values it held when
\* the thread was started.
C22_ConfigReadOnlyDuringRun ==
    \A t \in DOMAIN threads :
        isRunning(t) => app_config = threads[t].app_config_at_start

\* scanning and filtering have been carried out
Scanned == pc \notin {"start", "extract", "scan"} /\ ExtractionOk

\* the index of f lies within the configured bounds, both ends included; an
\* unset bound imposes no limit, and a name without an index counts as
\* beyond every stop bound (its index is float('inf'))
WithinBounds(f, cfg) ==
    /\ cfg.start_index # <<>> => KeyLE(IntKey(cfg.start_index[1]), EmbeddedIndex(f))
    /\ cfg.stop_index # <<>> => KeyLE(EmbeddedIndex(f), IntKey(cfg.stop_index[1]))

\* C23: index filtering is inclusive on both ends.  The layers considered for
\* processing are exactly the image files of the directory whose numeric
\* index i satisfies start_index <= i <= stop_index, an unset bound imposing
\* no limit; each such file is considered once.
C23_InclusiveIndexFilter ==
    Scanned
    => /\ { image_filenames_filtered[n] : n \in 1..Len(image_filenames_filtered) }
            = { f \in { listdir[n] : n \in 1..Len(listdir) } :
                    IsImageName(f) /\ WithinBounds(f, app_config) }
       /\ \A m, n \in 1..Len(image_filenames_filtered) :
            m # n => image_filenames_filtered[m] # image_filenames_filtered[n]

\* with start_index = stop_index = 2, a directory with indices 1, 2 and 2
\* keeps exactly the two layers of index 2
C23_Witness ==
    /\ Scanned
    /\ app_config.start_index = <<2>> /\ app_config.stop_index = <<2>>
    /\ listdir = <<F_a2, F_1, F_2>>
    /\ image_filenames_filtered = <<F_a2, F_2>>
    /\ pc = "done"

\* C24: with receding_layers = 0 the mask history is empty in every reachable
\* state: the cache and every snapshot copied from it hold no mask, so every
\* task of the run is handed, and reads, an empty history.
C24_ZeroCapacityAlwaysEmpty ==
    app_config.receding_layers = 0
    => /\ \A d \in DOMAIN deques : deques[d].items = <<>>
       /\ \A k \in Futures :
            /\ SnapshotOf(k) = <<>>
            /\ active_futures[k].seen = <<>>
            /\ StateOf(k) = "FINISHED" /\ OutputPathOf(k) \in DOMAIN output_folder
                 => output_folder[OutputPathOf(k)] =
                        TaskImage(active_futures[k].image_data, <<>>, app_config)

\* a run with receding_layers = 0 that pushed three masks and completed
C24_Witness ==
    /\ app_config.receding_layers = 0
    /\ Cardinality(Futures) = 3
    /\ \A k \in Futures : StateOf(k) = "FINISHED"
    /\ pc = "done"
    /\ is_running

\* C25: the worker pool is bounded.  After every step at most max_workers
\* (the configured thread count) tasks are executing, and a step that changes
\* the mask history or the tracker is a step of the control thread (it moves
\* the control thread's position), never a step of a worker.
C25_BoundedPool ==
    [][ /\ Cardinality({ k \in DOMAIN active_futures' :
                             active_futures'[k].state = "RUNNING" }) <= max_workers
        /\ (deques' # deques \/ tracker' # tracker)
             => /\ pc' # pc
                /\ \A k \in Futures : active_futures'[k] = active_futures[k]
      ]_vars

\* both workers of a pool of two are executing while a third task waits
C25_Witness ==
    /\ max_workers = 2
    /\ Cardinality(Running) = 2
    /\ Pending # {}

\* what one directory listing and one configuration make of a run: the layers
\* that are loaded, in submission order
RunLayers ==
    SelectSeq2(FilterByIndex(all_image_filenames(listdir), app_config),
               NamePool \ Unreadable)

\* the output image of the k-th of these layers
RunOutput(layers, k) ==
    TaskImage(ExpectedImageData(layers[k]), ExpectedHistory(layers, k),
              app_config)

\* C26: idempotence.  With a single worker thread (and no debug images, which
\* the tasks of this model never write) everything a run submits and writes
\* is a function of the directory listing and the configuration: the k-th
\* task submitted, its inputs and its output image are the same in every run
\* on that input, however the worker is scheduled against the control thread
\* and wherever a run is stopped; a run that is neither stopped nor failed
\* submits and completes all of them.  Hence two such runs on the same input
\* produce identical output images.
C26_Idempotent ==
    (max_workers = 1 /\ Futures # {}) =>
        LET layers == RunLayers
        IN /\ Len(active_futures) <= Len(layers)
           /\ \A k \in Futures :
                LET history == ExpectedHistory(layers, k)
                IN /\ active_futures[k].image_data = ExpectedImageData(layers[k])
                   /\ SnapshotOf(k) = history
                   /\ StateOf(k) \in Executed => active_futures[k].seen = history
                   /\ OutputPathOf(k) \in DOMAIN output_folder
                        => output_folder[OutputPathOf(k)] = RunOutput(layers, k)
           /\ (pc = "done" /\ is_running)
                => /\ Len(active_futures) = Len(layers)
                   /\ \A k \in Futures : StateOf(k) = "FINISHED"
                   /\ app_config.input_mode = "folder"
                        => DOMAIN output_folder = { OutputPathOf(k) : k \in Futures }

\* a complete single-worker run over three layers, the last of which was
\* blended against the two before it
C26_Witness ==
    /\ max_workers = 1
    /\ pc = "done" /\ is_running
    /\ app_config.input_mode = "folder"
    /\ Len(active_futures) = 3
    /\ Len(active_futures[3].seen) = 2
    /\ \A k \in Futures : OutputPathOf(k) \in DOMAIN output_folder

\* the mask of layer n of the five-layer stack
LayerMask(n) ==
    load_image(CHOOSE f \in { FiveLayers[j] : j \in DOMAIN FiveLayers } :
                   EmbeddedIndex(f) = IntKey(n))[1]

\* C27 as stated: with a window of two layers over layers 0..4, the tasks for
\* layers 0 and 1 both receive an empty mask history, and the task for layer 2
\* receives exactly the masks of layers 0 and 1.
C27_FirstTwoEmpty ==
    /\ 1 \in Futures => SnapshotOf(1) = <<>>
    /\ 2 \in Futures => SnapshotOf(2) = <<>>
    /\ 3 \in Futures => SnapshotOf(3) = <<LayerMask(0), LayerMask(1)>>

\* C27: with a window of two layers over layers 0..4, only the task for layer
\* 0 receives an empty mask history; the task for layer 1 receives exactly the
\* mask of layer 0, and the task for every later layer n exactly the masks of
\* layers n-2 and n-1, oldest first; a worker executing the task reads that
\* history.
C27_WindowFillsFromFirstLayer ==
    \A k \in Futures :
        LET n == k - 1
            history == CASE n = 0 -> <<>>
                         [] n = 1 -> <<LayerMask(0)>>
                         [] OTHER -> <<LayerMask(n - 2), LayerMask(n - 1)>>
        IN /\ EmbeddedIndex(FileOf(k)) = IntKey(n)
           /\ SnapshotOf(k) = history
           /\ StateOf(k) \in Executed => active_futures[k].seen = history

\* all five layers were processed, layer 1 against the mask of layer 0
C27_Witness ==
    /\ Len(active_futures) = 5
    /\ \A k \in Futures : StateOf(k) = "FINISHED"
    /\ active_futures[2].seen = <<LayerMask(0)>>
    /\ active_futures[3].seen = <<LayerMask(0), LayerMask(1)>>
    /\ active_futures[5].seen = <<LayerMask(2), LayerMask(3)>>

(***************************************************************************)
(* The slice editor's Project object (project.py) on its own: edit         *)
(* commands are created and added, undone and redone.  A command is an     *)
(* object (id) of a dataclass with the fields layer_index and shape (the   *)
(* remaining fields of a Draw...Command taken together).                   *)
(***************************************************************************)
MaxCommands == 3
MaxLayer == 1
MaxShape == 2

Layers == 0..MaxLayer
Shapes == 1..MaxShape

\* the __eq__ a dataclass generates: equal fields, whatever the object
DataclassEq(a, b) == a.layer_index = b.layer_index /\ a.shape = b.shape

\* EditCommand.get_affected_layer()
get_affected_layer(command) == command.layer_index

RemoveAt(s, n) == SubSeq(s, 1, n - 1) \o SubSeq(s, n + 1, Len(s))

\* list.remove(x): removes the first item equal to x; <<FALSE, s>> stands for
\* the ValueError raised when there is none
list_remove(s, x) ==
    LET hits == { n \in 1..Len(s) : DataclassEq(s[n], x) }
    IN IF hits = {} THEN <<FALSE, s>>
       ELSE <<TRUE, RemoveAt(s, CHOOSE n \in hits : \A m \in hits : n <= m)>>

\* lines 40-44 and 81-84: the edits dictionary with the command appended to
\* the list of its layer, the list being created when absent
AppendToLayer(edits, command) ==
    LET layer_index == get_affected_layer(command)
        present == IF layer_index \in DOMAIN edits THEN edits
                   ELSE (layer_index :> <<>>) @@ edits
    IN [present EXCEPT ![layer_index] = Append(@, command)]

\* an add_edit that leaves the redo stack alone
add_edit_keeps_redo(p, command) ==
    [edits |-> AppendToLayer(p.edits, command),
     undo_stack |-> Append(p.undo_stack, command),
     redo_stack |-> p.redo_stack]

\* Project.add_edit(command)
add_edit(p, command) ==
    [edits |-> AppendToLayer(p.edits, command),
     undo_stack |-> Append(p.undo_stack, command),
     redo_stack |-> <<>>]

\* Project._find_and_remove_command(command_to_remove): the edits afterwards
find_and_remove_command(p, command_to_remove) ==
    LET layer_index == get_affected_layer(command_to_remove)
    IN IF layer_index \in DOMAIN p.edits
       THEN [p.edits EXCEPT ![layer_index] = list_remove(@, command_to_remove)[2]]
       ELSE p.edits

\* Project.perform_undo(): the project afterwards and the value returned
\* (<<>> is None)
perform_undo(p) ==
    IF p.undo_stack = <<>> THEN [project |-> p, ret |-> <<>>]
    ELSE LET command == p.undo_stack[Len(p.undo_stack)]
             popped == [p EXCEPT !.undo_stack = SubSeq(@, 1, Len(@) - 1)]
         IN [project |-> [popped EXCEPT
                              !.edits = find_and_remove_command(popped, command),
                              !.redo_stack = Append(@, command)],
             ret |-> <<command>>]

\* a redo that forgets to put the command back on the undo stack
perform_redo_not_undoable(p) ==
    IF p.redo_stack = <<>> THEN [project |-> p, ret |-> <<>>]
    ELSE LET command == p.redo_stack[Len(p.redo_stack)]
         IN [project |-> [p EXCEPT
                              !.redo_stack = SubSeq(@, 1, Len(@) - 1),
                              !.edits = AppendToLayer(@, command)],
             ret |-> <<command>>]

\* Project.perform_redo(): the project afterwards and the value returned
perform_redo(p) ==
    IF p.redo_stack = <<>> THEN [project |-> p, ret |-> <<>>]
    ELSE LET command == p.redo_stack[Len(p.redo_stack)]
         IN [project |-> [p EXCEPT
                              !.redo_stack = SubSeq(@, 1, Len(@) - 1),
                              !.edits = AppendToLayer(@, command),
                              !.undo_stack = Append(@, command)],
             ret |-> <<command>>]

InitProject ==
    /\ project = NewProject
    /\ commands = <<>>
    /\ call = NoCall
    /\ tools = NoToolChecked
    /\ window = NoWindow
    /\ threads = <<>>
    /\ signals = <<>>
    /\ app_config \in { c \in Configs : BaseConfig(c) /\ c.start_index = <<>>
                                          /\ c.stop_index = <<>> }
    /\ max_workers = MaxWorkers
    /\ is_running = FALSE
    /\ listdir = <<>>
    /\ pc = "done"
    /\ image_filenames_filtered = <<>>
    /\ i = 0
    /\ loaded = <<>>
    /\ deques = <<>>
    /\ tracker = <<>>
    /\ active_futures = <<>>
    /\ yielded = {}
    /\ processed_count = 0
    /\ status = <<>>
    /\ progress = <<>>
    /\ errors = <<>>
    /\ finished = 0
    /\ output_folder = <<>>
    /\ repack_calls = 0
    /\ session_temp_folder = ""
    /\ stop_iter = <<>>
    /\ total_images = 0
    /\ exit_codes = <<>>

\* a new command object is created for some layer and added to the project
AddEdit ==
    /\ Len(commands) < MaxCommands
    /\ \E layer_index \in Layers, shape \in Shapes :
         LET command == [id |-> Len(commands) + 1,
                         layer_index |-> layer_index, shape |-> shape]
         IN /\ commands' = Append(commands, command)
            /\ project' = add_edit(project, command)
            /\ call' = [op |-> "add_edit", arg |-> <<command>>, ret |-> <<>>]
    /\ UNCHANGED <<tools, app_config, window, threads, signals, pipelineVars>>

Undo ==
    /\ project' = perform_undo(project).project
    /\ call' = [op |-> "perform_undo", arg |-> <<>>,
                ret |-> perform_undo(project).ret]
    /\ UNCHANGED <<commands, tools, app_config, window, threads, signals,
                   pipelineVars>>

Redo ==
    /\ project' = perform_redo(project).project
    /\ call' = [op |-> "perform_redo", arg |-> <<>>,
                ret |-> perform_redo(project).ret]
    /\ UNCHANGED <<commands, tools, app_config, window, threads, signals,
                   pipelineVars>>

NextProject == AddEdit \/ Undo \/ Redo

SpecProject == InitProject /\ [][NextProject]_vars

\* the edit list of a layer, empty when the dictionary has no entry for it
EditsOf(p, layer) == IF layer \in DOMAIN p.edits THEN p.edits[layer] ELSE <<>>

\* C28: add_edit(command) appends the command to the end of the edit list of
\* the command's layer, creating the list if absent, and to the top of the
\* undo stack, empties the redo stack, and leaves the edit lists of all other
\* layers as they were.
C28_AddEditFrame ==
    [][ call'.op = "add_edit" =>
          LET command == call'.arg[1]
              layer == command.layer_index
          IN /\ layer \in DOMAIN project'.edits
             /\ project'.edits[layer] = Append(EditsOf(project, layer), command)
             /\ project'.undo_stack = Append(project.undo_stack, command)
             /\ project'.redo_stack = <<>>
             /\ DOMAIN project'.edits = DOMAIN project.edits \cup {layer}
             /\ \A other \in DOMAIN project.edits \ {layer} :
                    project'.edits[other] = project.edits[other]
      ]_vars

\* two commands were added on different layers and undone, and a third was
\* added: the redo stack was emptied, the other layer's list still exists
C28_Witness ==
    /\ call.op = "add_edit"
    /\ Len(commands) = 3
    /\ project.undo_stack = <<commands[3]>>
    /\ project.redo_stack = <<>>
    /\ DOMAIN project.edits = Layers
    /\ commands[1].layer_index # commands[3].layer_index

\* the fields of the commands of a list, whatever the objects
Values(s) ==
    [n \in 1..Len(s) |-> [layer_index |-> s[n].layer_index, shape |-> s[n].shape]]

\* the list without the command c that was added to it last: without the last
\* of its items that is c or equals c
WithoutLast(s, c) ==
    LET at == { n \in 1..Len(s) : s[n].id = c.id \/ DataclassEq(s[n], c) }
    IN IF at = {} THEN s
       ELSE RemoveAt(s, CHOOSE n \in at : \A m \in at : m <= n)

\* C29: perform_undo() on a non-empty undo stack removes the most recently
\* added or redone command from the undo stack, removes that command from the
\* edit list of its layer (what remains is, field by field, the list as it was
\* before that command was added; the other layers keep their lists), pushes
\* it on the redo stack and returns it; on an empty undo stack it returns None
\* and changes nothing.
C29_UndoRemovesTheCommand ==
    [][ call'.op = "perform_undo" =>
          IF project.undo_stack = <<>>
          THEN call'.ret = <<>> /\ project' = project
          ELSE LET command == project.undo_stack[Len(project.undo_stack)]
                   layer == command.layer_index
               IN /\ call'.ret = <<command>>
                  /\ project'.undo_stack =
                         SubSeq(project.undo_stack, 1, Len(project.undo_stack) - 1)
                  /\ project'.redo_stack = Append(project.redo_stack, command)
                  /\ Values(EditsOf(project', layer)) =
                         Values(WithoutLast(EditsOf(project, layer), command))
                  /\ \A other \in Layers \ {layer} :
                         EditsOf(project', other) = EditsOf(project, other)
      ]_vars

\* C30: perform_redo() on a non-empty redo stack pops the most recently undone
\* command, appends it to the edit list of its layer, pushes it on the undo
\* stack and returns it; on an empty redo stack it returns None and changes
\* nothing.
C30_RedoRestores ==
    [][ call'.op = "perform_redo" =>
          IF project.redo_stack = <<>>
          THEN call'.ret = <<>> /\ project' = project
          ELSE LET command == project.redo_stack[Len(project.redo_stack)]
                   layer == command.layer_index
               IN /\ call'.ret = <<command>>
                  /\ project'.redo_stack =
                         SubSeq(project.redo_stack, 1, Len(project.redo_stack) - 1)
                  /\ project'.undo_stack = Append(project.undo_stack, command)
                  /\ project'.edits[layer] = Append(EditsOf(project, layer), command)
                  /\ \A other \in Layers \ {layer} :
                         EditsOf(project', other) = EditsOf(project, other)
      ]_vars

\* two commands were undone and the one undone last has been redone: it is
\* back in its layer's list and on the undo stack, the other still undone
C30_Witness ==
    /\ call.op = "perform_redo"
    /\ Len(commands) = 2
    /\ call.ret = <<commands[1]>>
    /\ project.undo_stack = <<commands[1]>>
    /\ project.redo_stack = <<commands[2]>>
    /\ project.edits[commands[1].layer_index] = <<commands[1]>>

\* the pipeline threads whose run() has not returned
AliveThreads == { t \in DOMAIN threads : isRunning(t) }

\* C31: at most one processing pipeline thread is alive at any time: the
\* window never starts a new thread while one it started earlier is still
\* running or waiting for its worker tasks.
C31_AtMostOneThreadAlive == Cardinality(AliveThreads) <= 1

\* C32: a run that emitted an error signal never ends with the success status
\* "Processing complete!": when the run has ended with that status, it
\* emitted no error and was not stopped.
C32_NoSuccessAfterError ==
    (pc = "done" /\ LastStatus = "Processing complete!")
    => errors = <<>> /\ is_running /\ stop_iter = <<>>

\* C33: every started run ends by emitting finished_signal exactly once, on
\* every path (completion, user stop, task failure, no images, failing
\* extraction, repack or cleanup): the run eventually reaches its end, the
\* signal has been emitted once when it has and not before, and afterwards no
\* status, progress, error or finished signal is emitted.
C33_FinishedExactlyOnce ==
    /\ <>(pc = "done")
    /\ [](finished = IF pc = "done" THEN 1 ELSE 0)
    /\ [][pc = "done" => UNCHANGED <<status, progress, errors, finished>>]_vars

\* a uvtools run ended after a task failure and a failed cleanup
C33_Witness ==
    /\ pc = "done"
    /\ finished = 1
    /\ Has(errors, TaskFailed)
    /\ Has(errors, "Could not delete temp folder")

\* C34: a run that was neither stopped by the user nor aborted by a failure
\* has emitted progress values, the last of which is 100.
C34_LastProgressIs100 ==
    (pc = "done" /\ is_running /\ stop_iter = <<>> /\ errors = <<>>)
    => /\ progress # <<>>
       /\ progress[Len(progress)] = 100

\* the layers of a run on the same directory without its unloadable files
LayersWithoutUnreadable ==
    FilterByIndex(all_image_filenames(SelectSeq2(listdir, NamePool \ Unreadable)),
                  app_config)

\* C35: a layer whose image cannot be loaded is skipped without side effects
\* on cross-layer state.  The step that skips it submits no task, leaves the
\* tracker alone and pushes nothing to the mask history; and once a layer was
\* skipped, the tasks submitted, their snapshots, the mask history and the
\* tracker calls are those of a run on the directory without the unloadable
\* files.
C35_SkipHasNoSideEffects ==
    /\ [][Count(status', "Skipping unloadable image")
              > Count(status, "Skipping unloadable image")
            => UNCHANGED <<active_futures, tracker, deques, loaded>>]_vars
    /\ [](PassedUnreadable # {} =>
            LET layers == LayersWithoutUnreadable
                n == Len(active_futures)
            IN /\ n <= Len(layers)
               /\ \A k \in Futures :
                    /\ FileOf(k) = layers[k]
                    /\ SnapshotOf(k) = ExpectedHistory(layers, k)
               /\ pc \in {"check", "collect", "shutdown"}
                    => deques[CacheId].items = ExpectedHistory(layers, n + 1)
               /\ Len(tracker) =
                      IF app_config.blending_mode = "roi_fade" THEN LoadedSoFar ELSE 0
               /\ \A k \in Futures :
                    app_config.blending_mode = "roi_fade"
                      => tracker[k][1] = EmbeddedIndex(layers[k]))

\* the unloadable layer 1 lay between layers 0 and 2: the task of layer 2 got
\* the mask of layer 0 as its whole history
C35_Witness ==
    /\ listdir = <<F_2, F_1, F_0>>
    /\ PassedUnreadable # {}
    /\ Len(active_futures) = 2
    /\ FileOf(1) = F_0 /\ FileOf(2) = F_2
    /\ SnapshotOf(2) = <<load_image(F_0)[1]>>
    /\ app_config.blending_mode = "roi_fade"
    /\ Len(tracker) = 2

\* the commands of a stack that affect a layer, in stack order
RECURSIVE OnLayer(_, _)
OnLayer(stack, layer) ==
    IF stack = <<>> THEN <<>>
    ELSE IF stack[1].layer_index = layer
         THEN <<stack[1]>> \o OnLayer(Tail(stack), layer)
         ELSE OnLayer(Tail(stack), layer)

RECURSIVE SumLen(_, _)
SumLen(edits, layers) ==
    IF layers = {} THEN 0
    ELSE LET l == CHOOSE x \in layers : TRUE
         IN Len(edits[l]) + SumLen(edits, layers \ {l})

\* C36: the active edits and the undo stack agree.  For every layer the edit
\* list of the layer equals, field by field and in order, the commands of the
\* undo stack that affect the layer, and the number of active edits is the
\* length of the undo stack.
C36_EditsAgreeWithUndoStack ==
    /\ \A layer \in Layers :
         Values(EditsOf(project, layer)) = Values(OnLayer(project.undo_stack, layer))
    /\ SumLen(project.edits, DOMAIN project.edits) = Len(project.undo_stack)

\* two projects with the same stacks and, layer by layer, edit lists that are
\* equal field by field
SameProject(p, q) ==
    /\ p.undo_stack = q.undo_stack
    /\ p.redo_stack = q.redo_stack
    /\ \A layer \in Layers : Values(EditsOf(p, layer)) = Values(EditsOf(q, layer))

\* C37: undo and redo are inverse.  From every reachable project with a
\* non-empty undo stack, perform_undo() followed by perform_redo() restores
\* the edit lists of all layers, the undo stack and the redo stack; and from
\* every reachable project with a non-empty redo stack, perform_redo()
\* followed by perform_undo() does.
C37_UndoRedoInverse ==
    /\ project.undo_stack # <<>>
         => SameProject(perform_redo(perform_undo(project).project).project, project)
    /\ project.redo_stack # <<>>
         => SameProject(perform_undo(perform_redo(project).project).project, project)

(***************************************************************************)
(* The drawing tools of the Interactive Slice Editor (main.py).  The       *)
(* three tool buttons are checkable; toggled(bool) of each is connected to *)
(* MainWindow.toggle_draw_mode in the window's own thread, so the slot     *)
(* runs synchronously inside the call that changes the button: a click,    *)
(* or a setChecked() that changes the checked state.  A project with       *)
(* layers is open.                                                         *)
(***************************************************************************)
ToolButtons == DOMAIN ToolModes

\* InteractiveCanvas.set_drawing_mode(mode)
set_drawing_mode(t, mode) == [t EXCEPT !.drawing_mode = mode]

\* the slot as the nested call runs it: `if not checked:` resets the canvas
toggle_draw_mode_unchecked(t) == set_drawing_mode(t, "None")

\* QAbstractButton.setChecked(False) on button b: nothing when b is already
\* unchecked, else the state changes and toggled(False) runs the slot
setCheckedFalse(t, b) ==
    IF ~t.checked[b]
    THEN t
    ELSE toggle_draw_mode_unchecked([t EXCEPT !.checked[b] = FALSE])

\* the loop `for i, button in enumerate(buttons)` from button b on
RECURSIVE ForEachButton(_, _, _)
ForEachButton(t, b, sender) ==
    IF b > Len(ToolModes)
    THEN t
    ELSE ForEachButton(IF b = sender
                       THEN set_drawing_mode(t, ToolModes[b])
                       ELSE setCheckedFalse(t, b),
                       b + 1, sender)

\* MainWindow.toggle_draw_mode(checked) with self.sender() = sender
toggle_draw_mode(t, sender, checked) ==
    IF ~checked
    THEN toggle_draw_mode_unchecked(t)
    ELSE ForEachButton(t, 1, sender)

\* the user clicks tool button b: its checked state flips, toggled is emitted
ClickTool(b) ==
    /\ tools' = toggle_draw_mode([tools EXCEPT !.checked[b] = ~tools.checked[b]],
                                 b, ~tools.checked[b])
    /\ UNCHANGED <<project, commands, call, app_config, window, threads,
                   signals, pipelineVars>>

\* the button that add_<mode>_from_mouse unchecks when it is done
ButtonOf(mode) == CHOOSE b \in ToolButtons : ToolModes[b] = mode

\* the user drags (rectangle, gradient) or clicks (text) on the canvas while
\* it has a drawing mode: handle_rect_drawing / handle_point_drawing call
\* add_<mode>_from_mouse, which adds the command unless the tool widget's
\* get_values() is None (never for the rectangle), and unchecks the button
DrawOnCanvas ==
    /\ tools.drawing_mode # "None"
    /\ Len(commands) < MaxCommands
    /\ \E layer_index \in Layers, shape \in Shapes, values_ok \in BOOLEAN :
         LET command == [id |-> Len(commands) + 1,
                         layer_index |-> layer_index, shape |-> shape]
         IN IF values_ok \/ tools.drawing_mode = "rectangle"
            THEN /\ commands' = Append(commands, command)
                 /\ project' = add_edit(project, command)
                 /\ call' = [op |-> "add_edit", arg |-> <<command>>,
                             ret |-> <<>>]
            ELSE UNCHANGED <<project, commands, call>>
    /\ tools' = setCheckedFalse(tools, ButtonOf(tools.drawing_mode))
    /\ UNCHANGED <<app_config, window, threads, signals, pipelineVars>>

NextTools ==
    \/ \E b \in ToolButtons : ClickTool(b)
    \/ DrawOnCanvas
    \/ Undo
    \/ Redo

SpecTools == InitProject /\ [][NextTools]_vars

CheckedButtons == { b \in ToolButtons : tools.checked[b] }

\* C38, first part: at most one tool button is checked
C38_AtMostOneChecked == Cardinality(CheckedButtons) <= 1

\* C38: after any sequence of toggles of the Rectangle, Gradient and Text
\* tool buttons at most one button is checked, and the canvas drawing mode
\* is that button's mode when one is checked and None when none is checked
C38_ToolsConsistentWithCanvas ==
    /\ C38_AtMostOneChecked
    /\ \A b \in CheckedButtons : tools.drawing_mode = ToolModes[b]
    /\ CheckedButtons = {} => tools.drawing_mode = "None"

\* the exit codes that the test of lines 19 and 78 lets pass
AcceptedExitCodes == {0, 1}

\* C39: extract_layers and repack_layers accept exit codes 0 and 1 of the
\* UVTools process as success and raise RuntimeError for every other exit
\* code: the extraction of a run (its first subprocess) fails exactly when
\* its exit code is neither 0 nor 1, and so does the repack (its second)
C39_ExitCodesZeroAndOneSucceed ==
    /\ exit_codes # <<>>
         => (Has(errors, "Error in processing thread: extraction failed")
               <=> exit_codes[1] \notin AcceptedExitCodes)
    /\ Len(exit_codes) = 2
         => (Has(errors, "Error in processing thread: repacking failed")
               <=> exit_codes[2] \notin AcceptedExitCodes)

====
